---- MODULE Spec2Model ----
(***************************************************************************)
(* livemd: the chunk scheduler (boundary selection, sanitization, pacing)  *)
(* and the incremental Markdown renderer of src/src/streamer.rs.           *)
(*                                                                         *)
(* Text is a sequence of characters.  A character is a string token; the   *)
(* characters outside ASCII are named by their code point.  Rust indexes a *)
(* String by UTF-8 byte offset, so every character carries its encoded     *)
(* length (BLen) and the operators below convert between character         *)
(* positions (1-based, as in TLA+) and byte offsets (0-based, as in Rust). *)
(***************************************************************************)
EXTENDS Integers, Sequences, FiniteSets, TLC

NL == "\n"
ESC == "U+001B"
EAcute == "U+00E9"
NBSP == "U+00A0"
Repl == "U+FFFD"
BT == "U+0060"

\* The box-drawing glyphs named in sanitize_boxes.
BoxGlyphs ==
    { "U+250F", "U+2513", "U+2517", "U+251B", "U+2503", "U+2501", "U+2500",
      "U+250C", "U+2510", "U+2514", "U+2518", "U+2502", "U+2554", "U+2557",
      "U+255A", "U+255D", "U+2550" }

\* Length of the UTF-8 encoding of a character.
BLen(c) ==
    IF c \in {EAcute, NBSP} THEN 2
    ELSE IF c \in BoxGlyphs \cup {Repl} THEN 3
    ELSE 1

\* char::is_whitespace on the characters of the model.
IsWhitespace(c) == c \in {" ", NL, "\t", NBSP}

None == "None"
Panic == -1

Min(a, b) == IF a < b THEN a ELSE b

MinOf(S) == CHOOSE x \in S : \A y \in S : x <= y

MaxOf(S) == CHOOSE x \in S : \A y \in S : y <= x

RECURSIVE Concat(_)
Concat(ss) == IF ss = <<>> THEN <<>> ELSE Head(ss) \o Concat(Tail(ss))

\* str::len: the length in bytes.
RECURSIVE ByteLen(_)
ByteLen(s) == IF s = <<>> THEN 0 ELSE BLen(Head(s)) + ByteLen(Tail(s))

\* Byte offset at which the character at position i starts (i = Len(s) + 1
\* gives the end of the text).
Off(s, i) == ByteLen(SubSeq(s, 1, i - 1))

\* str::is_char_boundary.
IsCharBoundary(s, b) == \E i \in 1..(Len(s) + 1) : Off(s, i) = b

\* The characters before byte offset b, a character boundary.
TakeBytes(s, b) ==
    SubSeq(s, 1, (CHOOSE i \in 1..(Len(s) + 1) : Off(s, i) = b) - 1)

\* A drain that removes nothing.
DropNothing(s, b) == s

\* The characters from byte offset b, a character boundary, on.
DropBytes(s, b) ==
    SubSeq(s, CHOOSE i \in 1..(Len(s) + 1) : Off(s, i) = b, Len(s))

\* buffer.chars().nth(k): the k-th character, counting characters from 0.
CharsNth(s, k) == IF k + 1 <= Len(s) THEN s[k + 1] ELSE None

\* Positions at which the pattern pat occurs in s.
Occurs(s, pat) ==
    { i \in 1..Len(s) :
        /\ i + Len(pat) - 1 <= Len(s)
        /\ SubSeq(s, i, i + Len(pat) - 1) = pat }

Fence == <<BT, BT, BT>>

\* The regex of three backticks, find_iter: the non-overlapping matches, left to right,
\* as character positions.
RECURSIVE FenceMatches(_, _)
FenceMatches(s, i) ==
    IF i + 2 > Len(s) THEN <<>>
    ELSE IF SubSeq(s, i, i + 2) = Fence
         THEN <<i>> \o FenceMatches(s, i + 3)
         ELSE FenceMatches(s, i + 1)

\* The loops "while flush_at < buffer.len() && chars().nth(flush_at) == '\n'".
RECURSIVE SkipNewlines(_, _)
SkipNewlines(s, flush_at) ==
    IF flush_at < ByteLen(s) /\ CharsNth(s, flush_at) = NL
    THEN SkipNewlines(s, flush_at + 1)
    ELSE flush_at

\* Rule 1 of find_flush_boundary: the cut after the second fence marker, or
\* 0 when the buffer has fewer than two markers.
FenceRule(buffer) ==
    LET ms == FenceMatches(buffer, 1)
    IN  IF Len(ms) < 2 THEN 0
        ELSE LET flush_at == Off(buffer, ms[2]) + 3
             IN  IF flush_at < ByteLen(buffer) /\ CharsNth(buffer, flush_at) = NL
                 THEN flush_at + 1
                 ELSE flush_at

\* Rule 2: the cut after the row of the first pipe, or 0.
TableRule(buffer) ==
    LET pipes == Occurs(buffer, <<"|">>)
    IN  IF pipes = {} THEN 0
        ELSE LET p == MinOf(pipes)
                 nls == { q \in Occurs(buffer, <<NL>>) : q >= p }
             IN  IF nls = {} THEN 0
                 ELSE LET potential_flush == Off(buffer, MinOf(nls)) + 1
                      IN  IF /\ potential_flush < ByteLen(buffer)
                             /\ CharsNth(buffer, potential_flush) # "|"
                          THEN potential_flush
                          ELSE 0

\* Rule 3: the cut after the run of newlines that starts at the first
\* double newline, or 0.
ParagraphRule(buffer) ==
    LET dbl == Occurs(buffer, <<NL, NL>>)
    IN  IF dbl = {} THEN 0
        ELSE SkipNewlines(buffer, Off(buffer, MinOf(dbl)) + 2)

\* Rule 4, entered with buffer.len() >= chunk_size.  The slice
\* buffer[..chunk_size] panics when chunk_size is not a character boundary.
SizeRule(buffer, chunk_size) ==
    IF ~IsCharBoundary(buffer, chunk_size) THEN Panic
    ELSE
    LET w == TakeBytes(buffer, chunk_size)
        sentence == Occurs(w, <<".", " ">>)
        punct == { i \in 1..Len(w) : w[i] \in {".", "!", "?", ":"} }
        comma == Occurs(w, <<",", " ">>)
        dash == Occurs(w, <<" ", "-", " ">>)
        space == { i \in 1..Len(w) : IsWhitespace(w[i]) }
        sentence_end == Off(w, MaxOf(punct))
        next == CharsNth(buffer, sentence_end + 1)
        last_space == Off(w, MaxOf(space))
    IN  IF sentence # {} THEN Off(w, MaxOf(sentence)) + 2
        ELSE IF /\ punct # {}
                /\ sentence_end + 1 < ByteLen(buffer)
                /\ IsWhitespace(IF next = None THEN " " ELSE next)
             THEN sentence_end + 2
        ELSE IF comma # {} THEN Off(w, MaxOf(comma)) + 2
        ELSE IF dash # {} THEN Off(w, MaxOf(dash)) + 3
        ELSE IF space # {} /\ last_space > (chunk_size * 3) \div 4
             THEN SkipNewlines(buffer, last_space + 1)
        ELSE chunk_size

\* Boundary selection with the size rule entered only above chunk_size.
find_flush_boundary_above(buffer, chunk_size) ==
    IF FenceRule(buffer) # 0 THEN FenceRule(buffer)
    ELSE IF TableRule(buffer) # 0 THEN TableRule(buffer)
    ELSE IF ParagraphRule(buffer) # 0 THEN ParagraphRule(buffer)
    ELSE IF ByteLen(buffer) > chunk_size THEN SizeRule(buffer, chunk_size)
    ELSE 0

\* Boundary selection that enters the size rule below the chunk size too.
find_flush_boundary_any_size(buffer, chunk_size) ==
    IF FenceRule(buffer) # 0 THEN FenceRule(buffer)
    ELSE IF TableRule(buffer) # 0 THEN TableRule(buffer)
    ELSE IF ParagraphRule(buffer) # 0 THEN ParagraphRule(buffer)
    ELSE SizeRule(buffer, chunk_size)

\* Boundary selection that tries the table rule before the fence rule.
find_flush_boundary_table_first(buffer, chunk_size) ==
    IF TableRule(buffer) # 0 THEN TableRule(buffer)
    ELSE IF FenceRule(buffer) # 0 THEN FenceRule(buffer)
    ELSE IF ParagraphRule(buffer) # 0 THEN ParagraphRule(buffer)
    ELSE IF ByteLen(buffer) >= chunk_size THEN SizeRule(buffer, chunk_size)
    ELSE 0

\* find_flush_boundary: the byte offset of the cut, 0 for no cut, or Panic.
find_flush_boundary(buffer, chunk_size) ==
    IF FenceRule(buffer) # 0 THEN FenceRule(buffer)
    ELSE IF TableRule(buffer) # 0 THEN TableRule(buffer)
    ELSE IF ParagraphRule(buffer) # 0 THEN ParagraphRule(buffer)
    ELSE IF ByteLen(buffer) >= chunk_size THEN SizeRule(buffer, chunk_size)
    ELSE 0

(***************************************************************************)
(* Sanitization                                                            *)
(***************************************************************************)
Digits == {"0", "1", "2", "3", "4", "5", "6", "7", "8", "9"}

Letters ==
    { "a", "b", "c", "d", "e", "f", "g", "h", "i", "j", "k", "l", "m", "n",
      "o", "p", "q", "r", "s", "t", "u", "v", "w", "x", "y", "z",
      "A", "B", "C", "D", "E", "F", "G", "H", "I", "J", "K", "L", "M", "N",
      "O", "P", "Q", "R", "S", "T", "U", "V", "W", "X", "Y", "Z" }

\* The classes of the pattern \x1B\[[0-?]*[ -/]*[@-~].
AnsiParam == Digits \cup {":", ";", "<", "=", ">", "?"}

AnsiIntermediate ==
    { " ", "!", "\"", "#", "$", "%", "&", "'", "(", ")", "*", "+", ",", "-",
      ".", "/" }

AnsiFinal ==
    Letters \cup {"@", "[", "\\", "]", "^", "_", BT, "{", "|", "}", "~"}

\* First position at or after i whose character is not in class.
RECURSIVE SkipClass(_, _, _)
SkipClass(s, i, class) ==
    IF i <= Len(s) /\ s[i] \in class THEN SkipClass(s, i + 1, class) ELSE i

\* Position of the final byte of a match of the pattern starting at i, or 0.
\* The three classes are disjoint, so the greedy scan is the regex's match.
AnsiMatchEnd(s, i) ==
    IF ~(i + 1 <= Len(s) /\ s[i] = ESC /\ s[i + 1] = "[") THEN 0
    ELSE LET j == SkipClass(s, SkipClass(s, i + 2, AnsiParam), AnsiIntermediate)
         IN  IF j <= Len(s) /\ s[j] \in AnsiFinal THEN j ELSE 0

\* ansi_re.replace_all(text, ""): one left-to-right pass.
RECURSIVE StripFrom(_, _)
StripFrom(s, i) ==
    IF i > Len(s) THEN <<>>
    ELSE IF AnsiMatchEnd(s, i) # 0 THEN StripFrom(s, AnsiMatchEnd(s, i) + 1)
    ELSE <<s[i]>> \o StripFrom(s, i + 1)

strip_ansi(text) == StripFrom(text, 1)

\* str::lines: the pieces between newlines; no empty piece after a final
\* newline.  (The texts of the model hold no carriage return.)
RECURSIVE Lines(_)
Lines(s) ==
    IF s = <<>> THEN <<>>
    ELSE LET nls == Occurs(s, <<NL>>)
         IN  IF nls = {} THEN <<s>>
             ELSE <<SubSeq(s, 1, MinOf(nls) - 1)>>
                    \o Lines(SubSeq(s, MinOf(nls) + 1, Len(s)))

\* out_lines.join("\n").
RECURSIVE Join(_)
Join(ls) ==
    IF ls = <<>> THEN <<>>
    ELSE IF Len(ls) = 1 THEN ls[1]
    ELSE ls[1] \o <<NL>> \o Join(Tail(ls))

RECURSIVE TrimStart(_)
TrimStart(s) ==
    IF s # <<>> /\ IsWhitespace(Head(s)) THEN TrimStart(Tail(s)) ELSE s

RECURSIVE TrimEnd(_)
TrimEnd(s) ==
    IF s # <<>> /\ IsWhitespace(s[Len(s)])
    THEN TrimEnd(SubSeq(s, 1, Len(s) - 1))
    ELSE s

\* str::trim.
Trim(s) == TrimEnd(TrimStart(s))

Has(line, chars) == \E i \in 1..Len(line) : line[i] \in chars

BoxTop == {"U+250F", "U+250C", "U+2554", "U+2501", "U+2500", "U+2550", "-", "+"}

BoxSide == {"U+2503", "U+2502", "|"}

BoxBottom == {"U+2517", "U+2514", "U+255A", "U+2501", "U+2500", "U+2550", "-", "+"}

\* The test of a three-line box at lines a, b, c.
IsBox(a, b, c) == Has(a, BoxTop) /\ Has(b, BoxSide) /\ Has(c, BoxBottom)

\* The middle line without its vertical bars, not trimmed.
BoxInnerUntrimmed(b) == SelectSeq(b, LAMBDA ch : ch \notin BoxSide)

\* The middle line without its vertical bars, trimmed.
BoxInner(b) == Trim(SelectSeq(b, LAMBDA ch : ch \notin BoxSide))

\* A regular line without box-drawing glyphs.
CleanLine(line) == SelectSeq(line, LAMBDA ch : ch \notin BoxGlyphs)

\* The loop of sanitize_boxes from line i on: the output lines.
RECURSIVE BoxLoop(_, _)
BoxLoop(lines, i) ==
    IF i > Len(lines) THEN <<>>
    ELSE IF i + 2 <= Len(lines) /\ IsBox(lines[i], lines[i + 1], lines[i + 2])
         THEN (IF BoxInner(lines[i + 1]) # <<>>
               THEN << <<>>, <<"#", "#", "#", " ">> \o BoxInner(lines[i + 1]), <<>> >>
               ELSE <<>>)
              \o BoxLoop(lines, i + 3)
    ELSE <<CleanLine(lines[i])>> \o BoxLoop(lines, i + 1)

sanitize_boxes(text) == Join(BoxLoop(Lines(text), 1))

(***************************************************************************)
(* Bytes: a byte is <<c, k>>, the k-th byte of the encoding of character c *)
(***************************************************************************)
RECURSIVE Bytes(_)
Bytes(s) ==
    IF s = <<>> THEN <<>>
    ELSE [k \in 1..BLen(Head(s)) |-> <<Head(s), k>>] \o Bytes(Tail(s))

\* std::str::from_utf8 succeeds on a slice of a valid text exactly when the
\* slice starts and ends on character boundaries.
Utf8Valid(bs) ==
    \/ bs = <<>>
    \/ bs[1][2] = 1 /\ bs[Len(bs)][2] = BLen(bs[Len(bs)][1])

\* String::from_utf8_lossy on a slice of a valid text: a stray continuation
\* byte and a truncated sequence each become one U+FFFD.
RECURSIVE Lossy(_)
Lossy(bs) ==
    IF bs = <<>> THEN <<>>
    ELSE IF bs[1][2] # 1 THEN <<Repl>> \o Lossy(Tail(bs))
    ELSE IF Len(bs) < BLen(bs[1][1]) THEN <<Repl>>
    ELSE <<bs[1][1]>> \o Lossy(SubSeq(bs, BLen(bs[1][1]) + 1, Len(bs)))

\* from_utf8(..).unwrap_or("") of stream_text.
StrictOrEmpty(bs) == IF Utf8Valid(bs) THEN Lossy(bs) ELSE <<>>

(***************************************************************************)
(* Inputs of the model                                                     *)
(***************************************************************************)
MaxPieces == 3

MaxChunk == 3

MaxBoundaryPieces == 4

RECURSIVE TextsOf(_, _)
TextsOf(pieces, n) ==
    IF n = 0 THEN {<<>>}
    ELSE LET shorter == TextsOf(pieces, n - 1)
         IN  shorter \cup { t \o p : t \in shorter, p \in pieces }

\* The pieces the streamed texts of the model are made of.
Pieces == { Fence, <<NL>>, <<"a">>, <<ESC, "[", "m">>, <<EAcute>> }

Texts == TextsOf(Pieces, MaxPieces)

ChunkSizes == {1, MaxChunk}

(***************************************************************************)
(* print_styled_markdown: the event loop over the parser's events.         *)
(* An event is a record [kind, tag, arg]; arg is a sequence: the tokens of *)
(* a Text, <<level>> of a Heading, the language of a CodeBlock, and the    *)
(* Option<u64> of a List (<<>> is None, <<n>> is Some(n)).                 *)
(***************************************************************************)
StartEv(t, a) == [kind |-> "Start", tag |-> t, arg |-> a]

EndEv(t) == [kind |-> "End", tag |-> t, arg |-> <<>>]

TextEv(s) == [kind |-> "Text", tag |-> None, arg |-> s]

\* SoftBreak, HardBreak, Rule.
LeafEv(k) == [kind |-> k, tag |-> None, arg |-> <<>>]

\* The locals of print_styled_markdown as they are declared, and the
\* terminal output so far in out.  A usize that has wrapped below zero is
\* written as the negative number congruent to it modulo 2^64.
FreshLocals ==
    [ list_depth        |-> 0,
      table_buffer      |-> <<>>,
      in_table          |-> FALSE,
      table_cell_count  |-> 0,
      header_buffer     |-> <<>>,
      in_header         |-> FALSE,
      list_buffer       |-> <<>>,
      in_list           |-> FALSE,
      list_indent_level |-> 0,
      list_types        |-> <<>>,
      item_numbers      |-> <<>>,
      code_block_buffer |-> <<>>,
      in_code_block     |-> FALSE,
      in_paragraph      |-> FALSE ]

LocalNames == DOMAIN FreshLocals

Locals(r) == [f \in LocalNames |-> r[f]]

\* The record r with its locals re-declared and its output kept.
Declare(r) == [f \in DOMAIN r |-> IF f \in LocalNames THEN FreshLocals[f] ELSE r[f]]

\* One output call: print_text, render_table, Print, SetAttribute,
\* SetForegroundColor, ResetColor, flush.
Emit(r, op, text) == [r EXCEPT !.out = Append(@, [op |-> op, text |-> text])]

RECURSIVE Repeat(_, _)
Repeat(c, n) == IF n <= 0 THEN <<>> ELSE <<c>> \o Repeat(c, n - 1)

RECURSIVE TrimEndMatches(_, _)
TrimEndMatches(s, pat) ==
    IF Len(s) >= Len(pat) /\ SubSeq(s, Len(s) - Len(pat) + 1, Len(s)) = pat
    THEN TrimEndMatches(SubSeq(s, 1, Len(s) - Len(pat)), pat)
    ELSE s

\* indent_len.min(3) of a usize.
MinThree(n) == IF n < 0 \/ n > 3 THEN 3 ELSE n

FlushHeader(r) ==
    IF r.in_header /\ r.header_buffer # <<>>
    THEN [Emit(r, "print_text", r.header_buffer)
            EXCEPT !.header_buffer = <<>>, !.in_header = FALSE]
    ELSE r

FlushList(r) ==
    IF r.in_list /\ r.list_buffer # <<>>
    THEN [Emit(r, "print_text", r.list_buffer)
            EXCEPT !.list_buffer = <<>>, !.in_list = FALSE]
    ELSE r

\* The arm of the match taken while in_table.
InTable(r, e) ==
    CASE e.kind = "End" /\ e.tag = "Table" ->
           LET table_md == TrimEndMatches(
                   TrimEndMatches(r.table_buffer, <<" ", "|", " ">>),
                   <<"|", " ">>)
               shown == IF table_md # <<>>
                        THEN Emit(r, "render_table", table_md) ELSE r
           IN  [shown EXCEPT !.in_table = FALSE, !.table_buffer = <<>>]
      [] e.kind = "Start" /\ e.tag \in {"TableHead", "TableRow"} ->
           [r EXCEPT !.table_cell_count = 0]
      [] e.kind = "End" /\ e.tag \in {"TableHead", "TableRow"} ->
           IF r.table_cell_count > 0
           THEN [r EXCEPT !.table_buffer = Append(@, NL)] ELSE r
      [] e.kind = "Start" /\ e.tag = "TableCell" ->
           [r EXCEPT !.table_buffer =
                        IF r.table_cell_count > 0
                        THEN @ \o <<" ", "|", " ">> ELSE @,
                     !.table_cell_count = @ + 1]
      [] e.kind = "Text" ->
           [r EXCEPT !.table_buffer = @ \o e.arg]
      [] OTHER -> r

\* Vec::pop, which leaves an empty vector empty.
Pop(v) == IF v = <<>> THEN v ELSE SubSeq(v, 1, Len(v) - 1)

\* n > k for a usize n.
Above(n, k) == n < 0 \/ n > k

StartTable(r) ==
    [FlushList(FlushHeader(r))
        EXCEPT !.in_table = TRUE, !.table_buffer = <<>>, !.table_cell_count = 0]

StartHeading(r, level) ==
    [FlushList(r)
        EXCEPT !.in_header = TRUE,
               !.header_buffer = Repeat("#", level) \o <<" ">>]

\* An end of heading that keeps the text it has printed.
EndHeadingKeepsText(r) ==
    IF r.in_header
    THEN [Emit(r, "print_text", r.header_buffer) EXCEPT !.in_header = FALSE]
    ELSE r

EndHeading(r) ==
    IF r.in_header
    THEN [Emit(r, "print_text", r.header_buffer)
            EXCEPT !.header_buffer = <<>>, !.in_header = FALSE]
    ELSE r

StartList(r, list_type) ==
    LET a == IF ~r.in_list
             THEN [FlushHeader(r)
                     EXCEPT !.in_list = TRUE, !.list_buffer = <<>>,
                            !.list_depth = 0, !.list_types = <<>>,
                            !.item_numbers = <<>>]
             ELSE r
        d == a.list_depth + 1
    IN  [a EXCEPT !.list_depth = d,
                  !.list_types = Append(@, list_type),
                  !.item_numbers = Append(@, 0),
                  !.list_buffer = IF Above(d, 1) THEN Append(@, NL) ELSE @,
                  !.list_indent_level = d - 1]

EndList(r) ==
    LET d == r.list_depth - 1
        a == [r EXCEPT !.list_depth = d,
                       !.list_types = Pop(@),
                       !.item_numbers = Pop(@)]
    IN  IF d = 0 /\ a.in_list
        THEN [Emit(a, "print_text", a.list_buffer)
                EXCEPT !.list_buffer = <<>>, !.in_list = FALSE]
        ELSE IF Above(d, 0)
        THEN [a EXCEPT !.list_indent_level = d - 1]
        ELSE a

StartItem(r) ==
    IF r.in_list
    THEN LET indent   == Repeat(" ", MinThree(2 * r.list_indent_level))
             level    == r.list_depth - 1
             item_num == r.item_numbers[level + 1]
             marker   == IF r.list_types[level + 1] # <<>>
                         THEN <<ToString(r.list_types[level + 1][1] + item_num),
                                ".", " ">>
                         ELSE <<"-", " ">>
         IN  [r EXCEPT !.item_numbers[level + 1] = item_num + 1,
                       !.list_buffer = @ \o indent \o marker]
    ELSE r

StartCodeBlock(r, lang) ==
    [FlushList(FlushHeader(r))
        EXCEPT !.in_code_block = TRUE,
               !.code_block_buffer = Fence \o lang \o <<NL>>]

EndCodeBlock(r) ==
    [Emit(r, "print_text", r.code_block_buffer \o <<NL>> \o Fence)
        EXCEPT !.code_block_buffer = <<>>, !.in_code_block = FALSE]

\* Emphasis and Strong, start and end: the marker goes to the open header
\* or list buffer, otherwise the terminal attributes are queued.
Inline(r, mark, queued) ==
    IF r.in_header THEN [r EXCEPT !.header_buffer = @ \o mark]
    ELSE IF r.in_list THEN [r EXCEPT !.list_buffer = @ \o mark]
    ELSE queued

TextEvent(r, text) ==
    IF r.in_header THEN [r EXCEPT !.header_buffer = @ \o text]
    ELSE IF r.in_list THEN [r EXCEPT !.list_buffer = @ \o text]
    ELSE IF r.in_code_block THEN [r EXCEPT !.code_block_buffer = @ \o text]
    ELSE Emit(r, "Print", text)

Break(r, text) ==
    IF r.in_list THEN [r EXCEPT !.list_buffer = @ \o text]
    ELSE Emit(r, "Print", text)

\* The rule line is one glyph per terminal column; "U+2500" stands for it.
RuleEvent(r) ==
    Emit(FlushList(FlushHeader(r)), "Print", <<NL, "U+2500", NL>>)

StartBlockQuote(r) ==
    IF r.in_list THEN [r EXCEPT !.list_buffer = @ \o <<">", " ">>]
    ELSE Emit(Emit(r, "SetForegroundColor", <<"italic">>),
              "Print", <<"U+2502", " ">>)

EndBlockQuote(r) ==
    IF r.in_list THEN [r EXCEPT !.list_buffer = Append(@, NL)]
    ELSE Emit(Emit(r, "ResetColor", <<>>), "Print", <<NL>>)

EndParagraph(r) ==
    [(IF ~r.in_list /\ r.in_paragraph THEN Emit(r, "Print", <<NL, NL>>) ELSE r)
        EXCEPT !.in_paragraph = FALSE]

\* The arm of the match taken while not in_table.
NotInTable(r, e) ==
    CASE e.kind = "Start" /\ e.tag = "Table"      -> StartTable(r)
      [] e.kind = "Start" /\ e.tag = "Heading"    -> StartHeading(r, e.arg[1])
      [] e.kind = "End"   /\ e.tag = "Heading"    -> EndHeading(r)
      [] e.kind = "Start" /\ e.tag = "List"       -> StartList(r, e.arg)
      [] e.kind = "End"   /\ e.tag = "List"       -> EndList(r)
      [] e.kind = "Start" /\ e.tag = "Item"       -> StartItem(r)
      [] e.kind = "End"   /\ e.tag = "Item"       ->
           IF r.in_list THEN [r EXCEPT !.list_buffer = Append(@, NL)] ELSE r
      [] e.kind = "Start" /\ e.tag = "CodeBlock"  -> StartCodeBlock(r, e.arg)
      [] e.kind = "End"   /\ e.tag = "CodeBlock"  -> EndCodeBlock(r)
      [] e.kind = "Start" /\ e.tag = "Emphasis"   ->
           Inline(r, <<"*">>, Emit(Emit(r, "SetAttribute", <<"Italic">>),
                                   "SetForegroundColor", <<"italic">>))
      [] e.kind = "End"   /\ e.tag = "Emphasis"   ->
           Inline(r, <<"*">>, Emit(r, "ResetColor", <<>>))
      [] e.kind = "Start" /\ e.tag = "Strong"     ->
           Inline(r, <<"*", "*">>, Emit(Emit(r, "SetAttribute", <<"Bold">>),
                                        "SetForegroundColor", <<"bold">>))
      [] e.kind = "End"   /\ e.tag = "Strong"     ->
           Inline(r, <<"*", "*">>, Emit(r, "ResetColor", <<>>))
      [] e.kind = "Text"                          -> TextEvent(r, e.arg)
      [] e.kind = "SoftBreak"                     -> Break(r, <<NL>>)
      [] e.kind = "HardBreak"                     -> Break(r, <<NL, NL>>)
      [] e.kind = "Rule"                          -> RuleEvent(r)
      [] e.kind = "Start" /\ e.tag = "BlockQuote" -> StartBlockQuote(r)
      [] e.kind = "End"   /\ e.tag = "BlockQuote" -> EndBlockQuote(r)
      [] e.kind = "Start" /\ e.tag = "Paragraph"  ->
           [r EXCEPT !.in_paragraph = TRUE]
      [] e.kind = "End"   /\ e.tag = "Paragraph"  -> EndParagraph(r)
      [] OTHER -> r

\* One iteration of the loop.
Handle(r, e) == IF r.in_table THEN InTable(r, e) ELSE NotInTable(r, e)

\* The iteration panics: a subtraction or addition on list_depth overflows
\* in a build with overflow checks, or the item handler indexes
\* item_numbers outside its length.
HandlerPanics(r, e, checks) ==
    /\ ~r.in_table
    /\ \/ /\ e.kind = "End" /\ e.tag = "List"
          /\ checks /\ r.list_depth = 0
       \/ /\ e.kind = "Start" /\ e.tag = "List"
          /\ checks /\ r.in_list /\ r.list_depth = -1
       \/ /\ e.kind = "Start" /\ e.tag = "Item"
          /\ r.in_list
          /\ \/ checks /\ (r.list_depth = 0 \/ r.list_indent_level < 0)
             \/ r.list_depth - 1 \notin 0..(Len(r.item_numbers) - 1)
             \/ r.list_depth - 1 \notin 0..(Len(r.list_types) - 1)

(***************************************************************************)
(* TableRenderer::render_table                                             *)
(***************************************************************************)
\* str::split on one character: the pieces between its occurrences.
RECURSIVE Split(_, _)
Split(s, sep) ==
    LET at == Occurs(s, <<sep>>)
    IN  IF at = {} THEN <<s>>
        ELSE <<SubSeq(s, 1, MinOf(at) - 1)>>
                \o Split(SubSeq(s, MinOf(at) + 1, Len(s)), sep)

\* The cells of a line, each trimmed.
RECURSIVE TrimAll(_)
TrimAll(cells) ==
    IF cells = <<>> THEN <<>>
    ELSE <<Trim(Head(cells))>> \o TrimAll(Tail(cells))

\* The rows parsed from the lines: the trimmed cells of every line that is
\* not blank.
RECURSIVE RowsOfLines(_)
RowsOfLines(lines) ==
    IF lines = <<>> THEN <<>>
    ELSE (IF Trim(Head(lines)) = <<>> THEN <<>>
          ELSE <<TrimAll(Split(Head(lines), "|"))>>)
            \o RowsOfLines(Tail(lines))

ParseRows(table_md) == RowsOfLines(Lines(table_md))

\* col_widths after one more row: a new column starts at 0, and each
\* column of the row takes the larger of its width and cell.len().
RECURSIVE WidenFrom(_, _, _)
WidenFrom(col_widths, row, i) ==
    IF i > Len(row) THEN SubSeq(col_widths, i, Len(col_widths))
    ELSE LET old == IF i <= Len(col_widths) THEN col_widths[i] ELSE 0
             len == ByteLen(row[i])
         IN  <<IF len > old THEN len ELSE old>>
                \o WidenFrom(col_widths, row, i + 1)

RECURSIVE ColWidthsFrom(_, _)
ColWidthsFrom(col_widths, rows) ==
    IF rows = <<>> THEN col_widths
    ELSE ColWidthsFrom(WidenFrom(col_widths, Head(rows), 1), Tail(rows))

ColWidths(rows) == ColWidthsFrom(<<>>, rows)

\* format!("{:<width$}"): the cell padded with spaces to width characters.
PadRight(cell, width) == cell \o Repeat(" ", width - Len(cell))

\* The Print calls of a border line from column i on.
RECURSIVE BorderFrom(_, _, _)
BorderFrom(mid, col_widths, i) ==
    IF i > Len(col_widths) THEN <<>>
    ELSE (IF i > 1 THEN << <<mid>> >> ELSE <<>>)
            \o << Repeat("U+2500", col_widths[i] + 2) >>
            \o BorderFrom(mid, col_widths, i + 1)

BorderLinePrints(left, mid, right, col_widths) ==
    << <<left>> >> \o BorderFrom(mid, col_widths, 1) \o << <<right, NL>> >>

\* The Print calls of the cells of a row from cell i on.
RECURSIVE CellsFrom(_, _, _)
CellsFrom(row, col_widths, i) ==
    IF i > Len(row) THEN <<>>
    ELSE LET width == IF i <= Len(col_widths) THEN col_widths[i] ELSE 0
         IN  (IF i > 1 THEN << <<"U+2502">> >> ELSE <<>>)
                \o << <<" ">> \o PadRight(row[i], width) \o <<" ">> >>
                \o CellsFrom(row, col_widths, i + 1)

\* The Print calls of the rows from row i on, with their separators.
RECURSIVE RowsFrom(_, _, _)
RowsFrom(rows, col_widths, i) ==
    IF i > Len(rows) THEN <<>>
    ELSE << <<"U+2502">> >> \o CellsFrom(rows[i], col_widths, 1)
            \o << <<"U+2502", NL>> >>
            \o (IF i = 1 \/ i < Len(rows)
                THEN BorderLinePrints("U+251C", "U+253C", "U+2524", col_widths)
                ELSE <<>>)
            \o RowsFrom(rows, col_widths, i + 1)

\* render_table: the texts of its Print calls, in order.
render_table(table_md) ==
    IF Lines(table_md) = <<>> \/ ParseRows(table_md) = <<>> THEN <<>>
    ELSE LET rows == ParseRows(table_md)
             col_widths == ColWidths(rows)
         IN  BorderLinePrints("U+250C", "U+252C", "U+2510", col_widths)
                \o RowsFrom(rows, col_widths, 1)
                \o BorderLinePrints("U+2514", "U+2534", "U+2518", col_widths)

(***************************************************************************)
(* Theme: colours are strings; a Color is <<"Rgb", r, g, b>> or the        *)
(* one-element sequence of a named colour.                                 *)
(***************************************************************************)
\* The value of a hexadecimal digit, or -1.
HexValue(c) ==
    CASE
         c = "0" -> 0
      [] c = "1" -> 1
      [] c = "2" -> 2
      [] c = "3" -> 3
      [] c = "4" -> 4
      [] c = "5" -> 5
      [] c = "6" -> 6
      [] c = "7" -> 7
      [] c = "8" -> 8
      [] c = "9" -> 9
      [] c = "a" -> 10
      [] c = "b" -> 11
      [] c = "c" -> 12
      [] c = "d" -> 13
      [] c = "e" -> 14
      [] c = "f" -> 15
      [] c = "A" -> 10
      [] c = "B" -> 11
      [] c = "C" -> 12
      [] c = "D" -> 13
      [] c = "E" -> 14
      [] c = "F" -> 15
      [] OTHER -> -1

\* u8::from_str_radix(s, 16) of a slice of two bytes: <<value>>, or <<>>
\* for an error.  One leading "+" is accepted.
FromStrRadix(s) ==
    LET digits == IF s # <<>> /\ s[1] = "+" THEN Tail(s) ELSE s
    IN  IF digits = <<>> \/ \E i \in 1..Len(digits) : HexValue(digits[i]) < 0
        THEN <<>>
        ELSE IF Len(digits) = 1 THEN <<HexValue(digits[1])>>
        ELSE <<16 * HexValue(digits[1]) + HexValue(digits[2])>>

\* char::to_lowercase of the characters of the model.
LowerChar(c) ==
    CASE
         c = "A" -> "a"
      [] c = "B" -> "b"
      [] c = "C" -> "c"
      [] c = "D" -> "d"
      [] c = "E" -> "e"
      [] c = "F" -> "f"
      [] c = "G" -> "g"
      [] c = "H" -> "h"
      [] c = "I" -> "i"
      [] c = "J" -> "j"
      [] c = "K" -> "k"
      [] c = "L" -> "l"
      [] c = "M" -> "m"
      [] c = "N" -> "n"
      [] c = "O" -> "o"
      [] c = "P" -> "p"
      [] c = "Q" -> "q"
      [] c = "R" -> "r"
      [] c = "S" -> "s"
      [] c = "T" -> "t"
      [] c = "U" -> "u"
      [] c = "V" -> "v"
      [] c = "W" -> "w"
      [] c = "X" -> "x"
      [] c = "Y" -> "y"
      [] c = "Z" -> "z"
      [] OTHER -> c

RECURSIVE ToLowercase(_)
ToLowercase(str) ==
    IF str = <<>> THEN <<>> ELSE <<LowerChar(Head(str))>> \o ToLowercase(Tail(str))

\* The match on the lower-cased colour name.
NamedColor(color_str) ==
    LET l == ToLowercase(color_str)
    IN  CASE
         l = <<"b", "l", "a", "c", "k">> -> <<"Black">>
      [] l = <<"r", "e", "d">> -> <<"Red">>
      [] l = <<"g", "r", "e", "e", "n">> -> <<"Green">>
      [] l = <<"y", "e", "l", "l", "o", "w">> -> <<"Yellow">>
      [] l = <<"b", "l", "u", "e">> -> <<"Blue">>
      [] l = <<"m", "a", "g", "e", "n", "t", "a">> -> <<"Magenta">>
      [] l = <<"c", "y", "a", "n">> -> <<"Cyan">>
      [] l = <<"w", "h", "i", "t", "e">> -> <<"White">>
      [] l = <<"d", "a", "r", "k", "_", "g", "r", "e", "y">> -> <<"DarkGrey">>
      [] l = <<"d", "a", "r", "k", "_", "g", "r", "a", "y">> -> <<"DarkGrey">>
      [] l = <<"g", "r", "e", "y">> -> <<"Grey">>
      [] l = <<"g", "r", "a", "y">> -> <<"Grey">>
          [] OTHER -> <<"White">>

\* &color_str[a..b]: the characters between two byte offsets that are
\* character boundaries.
ByteSlice(str, a, b) == TakeBytes(DropBytes(str, a), b - a)

\* Theme::parse_color.  Slicing at a byte offset inside a character
\* panics.
parse_color(color_str) ==
    IF color_str # <<>> /\ color_str[1] = "#" /\ ByteLen(color_str) = 7
    THEN IF ~IsCharBoundary(color_str, 3) \/ ~IsCharBoundary(color_str, 5)
         THEN <<"Panic">>
         ELSE LET r == FromStrRadix(ByteSlice(color_str, 1, 3))
                  g == FromStrRadix(ByteSlice(color_str, 3, 5))
                  b == FromStrRadix(ByteSlice(color_str, 5, 7))
              IN  IF r # <<>> /\ g # <<>> /\ b # <<>>
                  THEN <<"Rgb", r[1], g[1], b[1]>>
                  ELSE NamedColor(color_str)
    ELSE NamedColor(color_str)

\* Theme::get_heading_color.  heading is [kind, colors]: Single with one
\* colour, or Multiple with a list.
get_heading_color(theme, level) ==
    LET colors == theme.heading.colors
        index == IF level = 0 THEN 0 ELSE level - 1
    IN  IF theme.heading.kind = "Single" THEN parse_color(colors[1])
        ELSE IF index < Len(colors) THEN parse_color(colors[index + 1])
        ELSE IF colors # <<>> THEN parse_color(colors[Len(colors)])
        ELSE parse_color(<<"#", "f", "f", "f", "f", "f", "f">>)

\* Theme::dark, Theme::light, Theme::mono.
DarkTheme ==
    [ heading |-> [kind |-> "Single", colors |-> << <<"#", "8", "9", "b", "4", "f", "a">> >>],
      code    |-> <<"#", "1", "e", "1", "e", "2", "e">>,
      bold    |-> <<"#", "c", "d", "d", "6", "f", "4">>,
      italic  |-> <<"#", "f", "5", "c", "2", "e", "7">>,
      link    |-> <<"#", "a", "6", "e", "3", "a", "1">>,
      list    |-> <<"#", "f", "9", "e", "2", "a", "f">> ]

LightTheme ==
    [ heading |-> [kind |-> "Single", colors |-> << <<"#", "1", "e", "6", "6", "f", "5">> >>],
      code    |-> <<"#", "e", "f", "f", "1", "f", "5">>,
      bold    |-> <<"#", "4", "c", "4", "f", "6", "9">>,
      italic  |-> <<"#", "e", "a", "7", "6", "c", "b">>,
      link    |-> <<"#", "4", "0", "a", "0", "2", "b">>,
      list    |-> <<"#", "d", "f", "8", "e", "1", "d">> ]

MonoTheme ==
    [ heading |-> [kind |-> "Single", colors |-> << <<"#", "4", "c", "4", "f", "6", "9">> >>],
      code    |-> <<"#", "d", "c", "e", "0", "e", "8">>,
      bold    |-> <<"#", "4", "c", "4", "f", "6", "9">>,
      italic  |-> <<"#", "4", "c", "4", "f", "6", "9">>,
      link    |-> <<"#", "4", "0", "a", "0", "2", "b">>,
      list    |-> <<"#", "d", "f", "8", "e", "1", "d">> ]

\* A fallback that does not look at the theme name.
PresetDark(theme_name) == DarkTheme

\* The built-in theme for a theme name.
Preset(theme_name) ==
    CASE theme_name = "light" -> LightTheme
      [] theme_name = "mono"  -> MonoTheme
      [] OTHER                -> DarkTheme

(***************************************************************************)
(* Configuration: the command line, the configuration file and the         *)
(* resolution of the settings in main.  An Option is <<>> or <<v>>.        *)
(***************************************************************************)
Or(a, b) == IF a # <<>> THEN a ELSE b

UnwrapOr(a, default) == IF a # <<>> THEN a[1] ELSE default

\* config_file.as_ref().and_then(|c| c.<field>)
FileField(file, field) == IF file = <<>> THEN <<>> ELSE file[1][field]

\* HashMap::get on a map given as a set of <<key, value>> pairs with
\* distinct keys.
Get(map, key) ==
    IF \E p \in map : p[1] = key
    THEN <<(CHOOSE p \in map : p[1] = key)[2]>>
    ELSE <<>>

\* ConfigFile::resolve_llm_cmd: the set of its possible results.
\* map.values().next() is any value of the map.
resolve_llm_cmd(c, preset) ==
    IF c.llm_cmd = <<>> THEN {preset}
    ELSE IF c.llm_cmd[1].kind = "Single" THEN {<<c.llm_cmd[1].cmd>>}
    ELSE LET map == c.llm_cmd[1].map
         IN  IF preset # <<>> THEN {Get(map, preset[1])}
             ELSE IF Get(map, "default") # <<>> THEN {Get(map, "default")}
             ELSE IF map = {} THEN {<<>>}
             ELSE {<<p[2]>> : p \in map}

\* The possible values of llm_cmd in main.
LlmCmds(cli, file) ==
    IF file = <<>> THEN {cli.llm_cmd}
    ELSE {Or(r, cli.llm_cmd) : r \in resolve_llm_cmd(file[1], cli.llm_cmd)}

\* home_dir().join(".config").join("livemd").join(tf)
HomeJoin(tf) ==
    IF tf = "themes/default.json" THEN "~/.config/livemd/themes/default.json"
    ELSE IF tf = "t.json" THEN "~/.config/livemd/t.json"
    ELSE "~/.config/livemd/"

\* The theme file of main: the command line's, else the configuration
\* file's under the configuration directory, else the default theme file
\* when it exists.
ThemeFile(cli, file, default_exists) ==
    LET named == FileField(file, "theme_file")
        from_config == IF named = <<>> THEN <<>> ELSE <<HomeJoin(named[1])>>
        default_theme == IF default_exists
                         THEN <<HomeJoin("themes/default.json")>> ELSE <<>>
    IN  Or(Or(cli.theme_file, from_config), default_theme)

\* The StreamerConfig main builds, for one resolution of the LLM command.
StreamerConfig(cli, file, default_exists, llm) ==
    [ chunk_size |-> UnwrapOr(Or(cli.chunk_size, FileField(file, "chunk_size")), 150),
      speed      |-> UnwrapOr(Or(cli.speed, FileField(file, "speed")), "0.001"),
      strip_boxes |->
          cli.strip_boxes \/ UnwrapOr(FileField(file, "strip_boxes"), FALSE),
      llm_cmd    |-> llm,
      inject_md_instruction |->
          ~cli.no_inject
              /\ UnwrapOr(FileField(file, "inject_md_instruction"), TRUE),
      theme_name |-> UnwrapOr(Or(cli.theme, FileField(file, "theme")), "dark"),
      theme_file |-> ThemeFile(cli, file, default_exists) ]

\* A command line with no option, then with a mode.
NoOptions ==
    [ theme |-> <<>>, theme_file |-> <<>>, speed |-> <<>>, chunk_size |-> <<>>,
      strip_boxes |-> FALSE, llm_cmd |-> <<>>, no_inject |-> FALSE,
      stdin |-> FALSE, file |-> <<>>, cmd |-> <<>>, query |-> <<>> ]

\* The levels of the skin's headers.
HeaderLevels == 1..8

\* A colour lookup of new panics.
HeaderPanics(t) ==
    \E level \in HeaderLevels : get_heading_color(t, level) = <<"Panic">>

\* The heading colours new gives the skin's headers.
HeaderColors(t) == [level \in HeaderLevels |-> get_heading_color(t, level)]

\* What Theme::from_file gives when there is no file to read.
NoThemeFile == [result |-> "ReadError", theme |-> DarkTheme]

\* The command line that selects a source.
ModeOf(src) ==
    CASE src = "text"    -> [NoOptions EXCEPT !.file = <<"f.md">>]
      [] src = "command" -> [NoOptions EXCEPT !.cmd = <<"c">>]
      [] src = "query"   -> [NoOptions EXCEPT !.query = <<"q">>,
                                              !.llm_cmd = <<"tool">>]
      [] OTHER           -> [NoOptions EXCEPT !.stdin = TRUE]

(***************************************************************************)
(* The streaming session: stream_text, stream_command, stream_query and    *)
(* stream_stdin                                                            *)
(***************************************************************************)
VARIABLES
    source,            \* "text", "command", "query" or "stdin"
    chunk_size,        \* config.chunk_size
    strip_boxes,       \* config.strip_boxes
    input,             \* the text the source delivers
    pos,               \* bytes of input consumed so far
    buffer,            \* the stream buffer
    segments,          \* the texts handed to print_styled_markdown, in order
    chunks_processed,  \* cuts since the last append
    pc,                \* "read", "flush", "sleep", "done", "error", "panic";
                       \* for the renderer "idle", "render", "panic"
    overflow_checks,   \* the build checks integer overflow (debug profile)
    render,            \* the locals of print_styled_markdown and the output
    open,              \* the parser's open tags, innermost last
    n_events,          \* events delivered in the session
    n_calls,           \* calls of print_styled_markdown in the session
    cli,               \* the parsed command line
    config_file,       \* the loaded configuration file, an Option
    settings,          \* the StreamerConfig main builds
    from_file,         \* what Theme::from_file gives for the theme file
    theme,             \* the streamer's theme
    mad_skin,          \* the heading colours of the streamer's skin
    spawned            \* a subprocess has been spawned

vars ==
    << source, chunk_size, strip_boxes, input, pos, buffer, segments,
       chunks_processed, pc, overflow_checks, render, open, n_events,
       n_calls, cli, config_file, settings, from_file, theme, mad_skin,
       spawned >>

\* The renderer's part of the state.
rvars == <<overflow_checks, render, open, n_events, n_calls>>

\* No call of print_styled_markdown has been made.
NoRender ==
    /\ render = [f \in LocalNames \cup {"out"} |->
                    IF f = "out" THEN <<>> ELSE FreshLocals[f]]
    /\ open = <<>>
    /\ n_events = 0
    /\ n_calls = 0

\* The command line, the settings and the streamer main constructs.
startup == <<cli, config_file, settings, from_file, theme, mad_skin, spawned>>

config == <<source, chunk_size, strip_boxes, input, startup>>

\* main has constructed the streamer from a command line that gives the
\* chunk size, the box-stripping and the source, with no configuration
\* file and no theme file, and has called the source's operation.
Started ==
    /\ cli = [ModeOf(source) EXCEPT !.chunk_size = <<chunk_size>>,
                                    !.strip_boxes = strip_boxes]
    /\ config_file = <<>>
    /\ settings = StreamerConfig(cli, <<>>, FALSE, cli.llm_cmd)
    /\ from_file = NoThemeFile
    /\ theme = DarkTheme
    /\ mad_skin = HeaderColors(DarkTheme)
    /\ spawned = (source \in {"command", "query"})

step == 240

ReadBufferSize == 4096

TextPace == 5

PipePace == 3

\* A pacing that does not tell the sources apart.
PaceOfPipes(src) == PipePace

\* Cuts between two suspensions.
Pace(src) == IF src = "text" THEN TextPace ELSE PipePace

\* The text one read appends: n bytes from pos on, decoded.
Chunk(src, text, from, n) ==
    LET bs == SubSeq(Bytes(text), from + 1, from + n)
    IN  IF src = "text" THEN StrictOrEmpty(bs) ELSE Lossy(bs)

\* The buffer after push_str and sanitization.  stream_stdin does not call
\* strip_ansi.
Sanitize(src, boxes, text) ==
    LET stripped == IF src = "stdin" THEN text ELSE strip_ansi(text)
    IN  IF boxes THEN sanitize_boxes(stripped) ELSE stripped

\* One read of n bytes: push_str, sanitize, reset the cut counter.
Read(n) ==
    /\ pc = "read"
    /\ pos < ByteLen(input)
    /\ n >= 1
    /\ n <= ByteLen(input) - pos
    /\ IF source = "text" THEN n = Min(step, ByteLen(input) - pos)
                          ELSE n <= ReadBufferSize
    /\ pos' = pos + n
    /\ buffer' = Sanitize(source, strip_boxes,
                          buffer \o Chunk(source, input, pos, n))
    /\ chunks_processed' = 0
    /\ pc' = "flush"
    /\ UNCHANGED <<rvars, config, segments>>

\* One evaluation of the loop condition and, for a cut, one loop body:
\* buffer.drain(..flush_pos), print_styled_markdown, count, maybe sleep.
\* drain panics when flush_pos is not a character boundary.
Flush ==
    /\ pc = "flush"
    /\ LET flush_pos == find_flush_boundary(buffer, chunk_size)
       IN  IF flush_pos = Panic
           THEN pc' = "panic" /\ UNCHANGED <<buffer, segments, chunks_processed>>
           ELSE IF flush_pos = 0
           THEN pc' = "read" /\ UNCHANGED <<buffer, segments, chunks_processed>>
           ELSE IF ~IsCharBoundary(buffer, flush_pos)
           THEN pc' = "panic" /\ UNCHANGED <<buffer, segments, chunks_processed>>
           ELSE /\ segments' = Append(segments, TakeBytes(buffer, flush_pos))
                /\ buffer' = DropBytes(buffer, flush_pos)
                /\ chunks_processed' = chunks_processed + 1
                /\ pc' = IF (chunks_processed + 1) % Pace(source) = 0
                         THEN "sleep" ELSE "flush"
    /\ UNCHANGED <<rvars, config, pos>>

\* The delay elapses.
Wake ==
    /\ pc = "sleep"
    /\ pc' = "flush"
    /\ UNCHANGED <<rvars, config, pos, buffer, segments, chunks_processed>>

\* A final flush that tests the buffer for emptiness without trimming it.
FinalFlushUntrimmed(buf, segs) == IF buf # <<>> THEN Append(segs, buf) ELSE segs

\* The flush at end of input.
FinalFlush(buf, segs) == IF Trim(buf) # <<>> THEN Append(segs, buf) ELSE segs

EndOfInput ==
    /\ pc = "read"
    /\ pos = ByteLen(input)
    /\ segments' = FinalFlush(buffer, segments)
    /\ pc' = "done"
    /\ UNCHANGED <<rvars, config, pos, buffer, chunks_processed>>

\* An error arm that renders the buffer before it returns.
ErrorArmFlushed(buf, segs) == FinalFlush(buf, segs)

\* The segments after the arm Err(e) => return Err(e.into()): nothing is
\* rendered on the way out.
ErrorArm(buf, segs) == segs

\* reader.read returns Err: the function returns the error at once.
ReadError ==
    /\ pc = "read"
    /\ source # "text"
    /\ pc' = "error"
    /\ segments' = ErrorArm(buffer, segments)
    /\ UNCHANGED <<rvars, config, pos, buffer, chunks_processed>>

Next ==
    \/ \E n \in 1..(ByteLen(input) - pos) : Read(n)
    \/ Flush
    \/ Wake
    \/ EndOfInput
    \/ ReadError

Sources == {"text", "command", "query", "stdin"}

Start ==
    /\ pos = 0
    /\ buffer = <<>>
    /\ segments = <<>>
    /\ chunks_processed = 0
    /\ pc = "read"
    /\ overflow_checks = FALSE
    /\ NoRender
    /\ Started

\* The texts of the model are shorter than one step of stream_text, so a
\* text source delivers its text in one append.
Init ==
    /\ source \in Sources
    /\ chunk_size \in ChunkSizes
    /\ strip_boxes \in BOOLEAN
    /\ input \in Texts
    /\ Start

Spec == Init /\ [][Next]_vars

\* Sessions that are scheduled: a step that can be taken is taken (the
\* runtime resumes the task after a read or a sleep completes).  The texts
\* are short ones, some of them cut several times after one append.
DrainTexts ==
    { <<>>,
      <<"a">>,
      <<"a", "a", "a">>,
      <<EAcute>>,
      <<"a", EAcute>>,
      <<"a", NL, NL, "a">>,
      <<NL, NL>> }

InitDrain ==
    /\ source \in {"text", "command"}
    /\ chunk_size \in {1, MaxChunk}
    /\ strip_boxes = FALSE
    /\ input \in DrainTexts
    /\ Start

SpecFair == InitDrain /\ [][Next]_vars /\ WF_vars(Next)

(***************************************************************************)
(* Boundary selection on its own: the session right after one append has   *)
(* put a whole text in the buffer (the text holds no escape sequence and   *)
(* box-stripping is off, so sanitization left it as it was).               *)
(***************************************************************************)
BoundaryPieces ==
    { Fence, <<NL>>, <<"a">>, <<"|">>, <<" ">>, <<".">>, <<EAcute>> }

\* The examples of the specification's testable properties, shortened.
TableExample == <<"a", "|", "b", NL, "1", "|", "2", NL, "m">>

FenceExample == <<BT, BT, BT, "r", NL, "f", NL, BT, BT, BT, NL, "m", " ", "t">>

FenceExampleWide == <<BT, BT, BT, NL, EAcute, NL, BT, BT, BT, NL, "m", " ", "t">>

BoundaryTexts ==
    TextsOf(BoundaryPieces, MaxBoundaryPieces)
        \cup {TableExample, FenceExample, FenceExampleWide}

\* A chunk size of 0 is accepted by the configuration.
BoundaryChunkSizes == {0} \cup ChunkSizes

InitBoundary ==
    /\ source \in {"text", "command"}
    /\ chunk_size \in BoundaryChunkSizes
    /\ strip_boxes = FALSE
    /\ input \in BoundaryTexts
    /\ pos = ByteLen(input)
    /\ buffer = input
    /\ segments = <<>>
    /\ chunks_processed = 0
    /\ pc = "flush"
    /\ overflow_checks = FALSE
    /\ NoRender
    /\ Started

NextBoundary ==
    \/ Flush
    \/ Wake
    \/ EndOfInput

SpecBoundary == InitBoundary /\ [][NextBoundary]_vars

(***************************************************************************)
(* The size rule on its own: buffers of words, punctuation and whitespace  *)
(* at or above chunk sizes where three quarters is a whole number.         *)
(***************************************************************************)
MaxSizePieces == 4

SizePieces ==
    { <<"a">>, <<"a", "a", "a">>, <<" ">>, <<".">>, <<":">>, <<",">>,
      <<"-">>, <<NL>> }

SizeChunkSizes == {4, 8}

InitSize ==
    /\ source \in {"text", "command"}
    /\ chunk_size \in SizeChunkSizes
    /\ strip_boxes = FALSE
    /\ input \in TextsOf(SizePieces, MaxSizePieces)
    /\ pos = ByteLen(input)
    /\ buffer = input
    /\ segments = <<>>
    /\ chunks_processed = 0
    /\ pc = "flush"
    /\ overflow_checks = FALSE
    /\ NoRender
    /\ Started

SpecSize == InitSize /\ [][NextBoundary]_vars

(***************************************************************************)
(* A command or query whose output holds letters and escape sequences      *)
(* only, box-stripping off.                                                *)
(***************************************************************************)
PipePieces == { <<"a">>, <<ESC, "[", "m">> }

InitPipe ==
    /\ source \in {"command", "query"}
    /\ chunk_size \in ChunkSizes
    /\ strip_boxes = FALSE
    /\ input \in TextsOf(PipePieces, MaxPieces)
    /\ Start

SpecPipe == InitPipe /\ [][Next]_vars

(***************************************************************************)
(* Texts in which an escape character may stand in front of an escape      *)
(* sequence and lines may be blank, with box-stripping on or off.          *)
(***************************************************************************)
MaxSanitizePieces == 4

SanitizePieces == { <<"a">>, <<ESC>>, <<"[", "m">>, <<NL>> }

InitSanitize ==
    /\ source \in {"text", "command"}
    /\ chunk_size \in ChunkSizes
    /\ strip_boxes \in BOOLEAN
    /\ input \in TextsOf(SanitizePieces, MaxSanitizePieces)
    /\ Start

SpecSanitize == InitSanitize /\ [][Next]_vars

(***************************************************************************)
(* Texts of box lines, streamed as text: the whole text is one append.     *)
(***************************************************************************)
MaxBoxLines == 4

\* A border, a middle line with inner text, a plain line, a line of the
\* glyph U+2500, an empty line.
BoxLinePieces ==
    { <<"+", "-">>, <<"|", " ", "a">>, <<"a">>, <<"U+2500">>, <<>> }

RECURSIVE LineSeqs(_)
LineSeqs(n) ==
    IF n = 0 THEN {<<>>}
    ELSE LET shorter == LineSeqs(n - 1)
         IN  shorter \cup { Append(ls, l) : ls \in shorter, l \in BoxLinePieces }

\* The lines joined by newlines, with or without a final newline.
BoxTexts ==
    { Join(ls) : ls \in LineSeqs(MaxBoxLines) }
        \cup { Join(ls) \o <<NL>> : ls \in LineSeqs(MaxBoxLines) }

InitBox ==
    /\ source = "text"
    /\ chunk_size \in ChunkSizes
    /\ strip_boxes \in BOOLEAN
    /\ input \in BoxTexts
    /\ Start

NextBox ==
    \/ \E n \in 1..(ByteLen(input) - pos) : Read(n)
    \/ Flush
    \/ Wake
    \/ EndOfInput

SpecBox == InitBox /\ [][NextBox]_vars

(***************************************************************************)
(* The renderer over a session: the calls of print_styled_markdown, one    *)
(* per segment, each looping over the events the parser yields for its     *)
(* segment.  The parser yields a well-nested sequence and closes every     *)
(* tag before it ends.                                                     *)
(***************************************************************************)
MaxEvents == 8

MaxCalls == 2

MaxCols == 2

Levels == {1, 2}

ListTypes == { <<>>, <<1>> }

CodeLangs == { <<>>, <<"rs">> }

Word == <<"x">>

BlockContexts == {"Doc", "Item", "BlockQuote"}

InlineContexts ==
    {"Paragraph", "Heading", "TableCell", "Emphasis", "Strong", "Item"}

\* The innermost open tag.
Context == IF open = <<>> THEN "Doc" ELSE open[Len(open)].tag

\* The open tags after one more child of the innermost one.
Child ==
    IF open = <<>> THEN open ELSE [open EXCEPT ![Len(open)].n = @ + 1]

Opened(t) == Append(Child, [tag |-> t, n |-> 0, cols |-> 0, type |-> <<>>])

\* A list is opened with its type: <<>> for unordered, <<start>> for ordered.
OpenedList(list_type) ==
    Append(Child, [tag |-> "List", n |-> 0, cols |-> 0, type |-> list_type])

\* The open tags after the innermost one ends; a table learns its number
\* of columns from its head.
Closed ==
    LET top  == open[Len(open)]
        rest == SubSeq(open, 1, Len(open) - 1)
    IN  IF top.tag = "TableHead"
        THEN [rest EXCEPT ![Len(rest)].cols = top.n]
        ELSE rest

\* The innermost tag may end here.
MayEnd ==
    LET top == open[Len(open)]
    IN  CASE top.tag \in {"List", "Table", "TableHead", "Paragraph",
                          "Emphasis", "Strong"} -> top.n >= 1
          [] top.tag = "TableRow" -> top.n = open[Len(open) - 1].cols
          [] OTHER -> TRUE

\* The loop takes event e from the parser and runs its match arm; the
\* session has at most max events, and room is kept to close the open tags.
DeliverWithin(e, opened, max) ==
    /\ pc = "render"
    /\ n_events + 1 + Len(opened) <= max
    /\ n_events' = n_events + 1
    /\ open' = opened
    /\ IF HandlerPanics(render, e, overflow_checks)
       THEN pc' = "panic" /\ render' = render
       ELSE pc' = pc /\ render' = Handle(render, e)
    /\ UNCHANGED <<config, pos, buffer, segments, chunks_processed,
                   overflow_checks, n_calls>>

Deliver(e, opened) == DeliverWithin(e, opened, MaxEvents)

\* Entry of print_styled_markdown: the parser is built for the segment and
\* every local is declared with its initial value.
BeginCall ==
    /\ pc = "idle"
    /\ n_calls < MaxCalls
    /\ n_calls' = n_calls + 1
    /\ render' = Declare(render)
    /\ pc' = "render"
    /\ UNCHANGED <<config, pos, buffer, segments, chunks_processed,
                   overflow_checks, open, n_events>>

\* The parser is exhausted: stdout.flush() and return.
EndCall ==
    /\ pc = "render"
    /\ open = <<>>
    /\ render' = Emit(render, "flush", <<>>)
    /\ pc' = "idle"
    /\ UNCHANGED <<config, pos, buffer, segments, chunks_processed,
                   overflow_checks, open, n_events, n_calls>>

\* A block starts in the document, a list item or a block quote.
ParseParagraph ==
    Context \in BlockContexts /\ Deliver(StartEv("Paragraph", <<>>), Opened("Paragraph"))

ParseHeading ==
    /\ Context \in BlockContexts
    /\ \E level \in Levels :
          Deliver(StartEv("Heading", <<level>>), Opened("Heading"))

ParseList ==
    /\ Context \in BlockContexts
    /\ \E list_type \in ListTypes :
          Deliver(StartEv("List", list_type), OpenedList(list_type))

ParseCodeBlock ==
    /\ Context \in BlockContexts
    /\ \E lang \in CodeLangs :
          Deliver(StartEv("CodeBlock", lang), Opened("CodeBlock"))

ParseTable ==
    Context \in BlockContexts /\ Deliver(StartEv("Table", <<>>), Opened("Table"))

ParseBlockQuote ==
    /\ Context \in BlockContexts
    /\ Deliver(StartEv("BlockQuote", <<>>), Opened("BlockQuote"))

ParseRule ==
    Context \in BlockContexts /\ Deliver(LeafEv("Rule"), Child)

\* A list holds items only.
ParseItem ==
    Context = "List" /\ Deliver(StartEv("Item", <<>>), Opened("Item"))

\* A table holds its head and then its rows.
ParseTableHead ==
    /\ Context = "Table"
    /\ open[Len(open)].n = 0
    /\ Deliver(StartEv("TableHead", <<>>), Opened("TableHead"))

ParseTableRow ==
    /\ Context = "Table"
    /\ open[Len(open)].n >= 1
    /\ Deliver(StartEv("TableRow", <<>>), Opened("TableRow"))

\* A row has as many cells as the head.
ParseTableCell ==
    /\ \/ Context = "TableHead" /\ open[Len(open)].n < MaxCols
       \/ Context = "TableRow"
             /\ open[Len(open)].n < open[Len(open) - 1].cols
    /\ Deliver(StartEv("TableCell", <<>>), Opened("TableCell"))

ParseText ==
    /\ Context \in InlineContexts \cup {"CodeBlock"}
    /\ Deliver(TextEv(Word), Child)

ParseEmphasis ==
    /\ Context \in InlineContexts
    /\ Deliver(StartEv("Emphasis", <<>>), Opened("Emphasis"))

ParseStrong ==
    /\ Context \in InlineContexts
    /\ Deliver(StartEv("Strong", <<>>), Opened("Strong"))

\* A line break follows inline content.
ParseSoftBreak ==
    /\ Context \in InlineContexts
    /\ open[Len(open)].n >= 1
    /\ Deliver(LeafEv("SoftBreak"), Child)

ParseHardBreak ==
    /\ Context \in InlineContexts
    /\ open[Len(open)].n >= 1
    /\ Deliver(LeafEv("HardBreak"), Child)

ParseEnd ==
    /\ open # <<>>
    /\ MayEnd
    /\ Deliver(EndEv(Context), Closed)

NextRender ==
    \/ BeginCall
    \/ ParseParagraph
    \/ ParseHeading
    \/ ParseList
    \/ ParseCodeBlock
    \/ ParseTable
    \/ ParseBlockQuote
    \/ ParseRule
    \/ ParseItem
    \/ ParseTableHead
    \/ ParseTableRow
    \/ ParseTableCell
    \/ ParseText
    \/ ParseEmphasis
    \/ ParseStrong
    \/ ParseSoftBreak
    \/ ParseHardBreak
    \/ ParseEnd
    \/ EndCall

\* A session about to render its first segment; the streaming side is
\* left aside.
InitRender ==
    /\ source \in {"text"}
    /\ chunk_size = MaxChunk
    /\ strip_boxes = FALSE
    /\ input = <<>>
    /\ pos = 0
    /\ buffer = <<>>
    /\ segments = <<>>
    /\ chunks_processed = 0
    /\ pc = "idle"
    /\ overflow_checks \in BOOLEAN
    /\ NoRender
    /\ Started

SpecRender == InitRender /\ [][NextRender]_vars

(***************************************************************************)
(* The renderer over documents of lists: lists of items that hold text,    *)
(* nested lists and code blocks, in longer sessions.                       *)
(***************************************************************************)
MaxListEvents == 10

ListsList ==
    /\ Context \in {"Doc", "Item"}
    /\ \E list_type \in ListTypes :
          DeliverWithin(StartEv("List", list_type), OpenedList(list_type),
                        MaxListEvents)

ListsItem ==
    /\ Context = "List"
    /\ DeliverWithin(StartEv("Item", <<>>), Opened("Item"), MaxListEvents)

ListsCodeBlock ==
    /\ Context = "Item"
    /\ DeliverWithin(StartEv("CodeBlock", <<>>), Opened("CodeBlock"),
                     MaxListEvents)

ListsText ==
    /\ Context \in {"Item", "CodeBlock"}
    /\ open[Len(open)].n = 0
    /\ DeliverWithin(TextEv(Word), Child, MaxListEvents)

ListsEnd ==
    /\ open # <<>>
    /\ MayEnd
    /\ DeliverWithin(EndEv(Context), Closed, MaxListEvents)

NextLists ==
    \/ BeginCall
    \/ ListsList
    \/ ListsItem
    \/ ListsCodeBlock
    \/ ListsText
    \/ ListsEnd
    \/ EndCall

SpecLists == InitRender /\ [][NextLists]_vars

(***************************************************************************)
(* render_table on the flattened tables the event loop builds: the cells   *)
(* of a row joined by " | ", every row ended by a newline.                 *)
(***************************************************************************)
MaxRows == 3

TableCells == { <<>>, <<"a">>, <<"b", "b">>, <<EAcute>> }

\* Rows of one or two cells.
TableRows ==
    { <<c>> : c \in TableCells } \cup { <<c, d>> : c \in TableCells, d \in TableCells }

RECURSIVE RowSeqs(_)
RowSeqs(n) ==
    IF n = 0 THEN {<<>>}
    ELSE LET shorter == RowSeqs(n - 1)
         IN  shorter \cup { Append(rs, r) : rs \in shorter, r \in TableRows }

RECURSIVE JoinCells(_)
JoinCells(row) ==
    IF Len(row) = 1 THEN row[1]
    ELSE row[1] \o <<" ", "|", " ">> \o JoinCells(Tail(row))

RECURSIVE Flatten(_)
Flatten(rows) ==
    IF rows = <<>> THEN <<>>
    ELSE JoinCells(Head(rows)) \o <<NL>> \o Flatten(Tail(rows))

TableTexts == { Flatten(rows) : rows \in RowSeqs(MaxRows) }

InitTable ==
    /\ source = "text"
    /\ chunk_size = MaxChunk
    /\ strip_boxes = FALSE
    /\ input \in TableTexts
    /\ pos = 0
    /\ buffer = <<>>
    /\ segments = <<>>
    /\ chunks_processed = 0
    /\ pc = "table"
    /\ overflow_checks = FALSE
    /\ NoRender
    /\ Started

RECURSIVE Printed(_)
Printed(prints) ==
    IF prints = <<>> THEN <<>>
    ELSE <<[op |-> "Print", text |-> Head(prints)]>> \o Printed(Tail(prints))

\* One call render_table(input).
RenderTable ==
    /\ pc = "table"
    /\ LET prints == render_table(input)
       IN  render' = [render EXCEPT !.out =
                        @ \o Printed(prints)]
    /\ pc' = "done"
    /\ UNCHANGED <<config, pos, buffer, segments, chunks_processed,
                   overflow_checks, open, n_events, n_calls>>

NextTable == RenderTable

SpecTable == InitTable /\ [][NextTable]_vars

(***************************************************************************)
(* Startup: main resolves the settings, constructs the streamer and calls  *)
(* the operation of the selected source.                                   *)
(***************************************************************************)
\* Not constructed yet.
Unset == <<>>

BeforeMain ==
    /\ source = "none"
    /\ chunk_size = 0
    /\ strip_boxes = FALSE
    /\ pos = 0
    /\ buffer = <<>>
    /\ segments = <<>>
    /\ chunks_processed = 0
    /\ pc = "main"
    /\ overflow_checks = FALSE
    /\ NoRender
    /\ settings = Unset
    /\ theme = Unset
    /\ mad_skin = Unset
    /\ spawned = FALSE

\* The resolution of the settings in main, up to the StreamerConfig.
Resolve ==
    /\ pc = "main"
    /\ \E default_exists \in BOOLEAN, llm \in LlmCmds(cli, config_file) :
           settings' = StreamerConfig(cli, config_file, default_exists, llm)
    /\ chunk_size' = settings'.chunk_size
    /\ strip_boxes' = settings'.strip_boxes
    /\ pc' = "new"
    /\ UNCHANGED <<rvars, source, input, pos, buffer, segments,
                   chunks_processed, cli, config_file, from_file, theme,
                   mad_skin, spawned>>

\* MinimalStreamer::new: the theme of the theme file when it loads, else
\* the built-in theme of the theme name; then the skin's heading colours.
New ==
    /\ pc = "new"
    /\ theme' = IF settings.theme_file # <<>> /\ from_file.result = "Ok"
                THEN from_file.theme
                ELSE Preset(settings.theme_name)
    /\ IF HeaderPanics(theme')
       THEN pc' = "panic" /\ mad_skin' = mad_skin
       ELSE pc' = "dispatch" /\ mad_skin' = HeaderColors(theme')
    /\ UNCHANGED <<rvars, source, chunk_size, strip_boxes, input, pos, buffer,
                   segments, chunks_processed, cli, config_file, settings,
                   from_file, spawned>>

\* The branch of main's dispatch a command line takes.
Mode(c) ==
    IF c.stdin THEN "stdin"
    ELSE IF c.file # <<>> THEN "file"
    ELSE IF c.cmd # <<>> THEN "cmd"
    ELSE IF c.query # <<>> THEN "query"
    ELSE "none"

\* What every operation leaves alone when it starts.
Entered ==
    UNCHANGED <<rvars, chunk_size, strip_boxes, input, pos, buffer, segments,
                chunks_processed, cli, config_file, settings, from_file,
                theme, mad_skin>>

\* stream_stdin, from the flag or from piped input, up to its loop.
StreamStdin(piped) ==
    /\ pc = "dispatch"
    /\ Mode(cli) = "stdin" \/ (Mode(cli) = "none" /\ piped)
    /\ source' = "stdin"
    /\ pc' = "read"
    /\ spawned' = spawned
    /\ Entered

\* stream_file, up to the loop of stream_text; the file may fail to open
\* or to read as text.
StreamFile(readable) ==
    /\ pc = "dispatch"
    /\ Mode(cli) = "file"
    /\ source' = "text"
    /\ pc' = IF readable THEN "read" ELSE "error"
    /\ spawned' = spawned
    /\ Entered

\* stream_command, up to its loop.
StreamCommand ==
    /\ pc = "dispatch"
    /\ Mode(cli) = "cmd"
    /\ source' = "command"
    /\ pc' = "read"
    /\ spawned' = TRUE
    /\ Entered

\* A stream_query that spawns before it looks at the command.
QueryEntrySpawnFirst(llm_cmd) ==
    [pc |-> IF llm_cmd = <<>> THEN "error" ELSE "read", spawned |-> TRUE]

\* The entry of stream_query: the error for a missing command is returned
\* before the spawn.
QueryEntry(llm_cmd) ==
    IF llm_cmd = <<>> THEN [pc |-> "error", spawned |-> FALSE]
    ELSE [pc |-> "read", spawned |-> TRUE]

\* stream_query, up to its loop.
StreamQuery ==
    /\ pc = "dispatch"
    /\ Mode(cli) = "query"
    /\ source' = "query"
    /\ pc' = QueryEntry(settings.llm_cmd).pc
    /\ spawned' = QueryEntry(settings.llm_cmd).spawned
    /\ Entered

\* No mode and no piped input: main reports the error and exits.
NoMode ==
    /\ pc = "dispatch"
    /\ Mode(cli) = "none"
    /\ pc' = "exit"
    /\ UNCHANGED <<source, spawned>>
    /\ Entered

NextStart ==
    \/ Resolve
    \/ New
    \/ \E piped \in BOOLEAN : StreamStdin(piped)
    \/ \E readable \in BOOLEAN : StreamFile(readable)
    \/ StreamCommand
    \/ StreamQuery
    \/ NoMode
    \/ \E n \in 1..(ByteLen(input) - pos) : Read(n)
    \/ Flush
    \/ Wake
    \/ EndOfInput
    \/ ReadError

\* Colour strings of theme files.
Red == <<"R", "e", "d">>

Hex1 == <<"#", "0", "1", "0", "2", "0", "3">>

Hex2 == <<"#", "a", "0", "B", "0", "c", "0">>

\* Seven bytes, the third byte inside a character.
Split3 == <<"#", "1", EAcute, "2", "3", "4">>

HeadingsOfFiles ==
    { [kind |-> "Single", colors |-> <<Hex1>>],
      [kind |-> "Single", colors |-> <<Split3>>],
      [kind |-> "Multiple", colors |-> <<>>],
      [kind |-> "Multiple", colors |-> <<Hex1, Red, Hex2>>],
      [kind |-> "Multiple", colors |-> <<Hex1, Hex2, Split3>>] }

\* What Theme::from_file can give.
FromFile ==
    { [result |-> "Ok", theme |-> [LightTheme EXCEPT !.heading = h]] :
          h \in HeadingsOfFiles }
        \cup { [result |-> r, theme |-> DarkTheme] :
                   r \in {"ReadError", "ParseError"} }

Modes == {NoOptions} \cup { ModeOf(src) : src \in Sources }

StartClis ==
    { [m EXCEPT !.theme = t, !.theme_file = tf, !.llm_cmd = l,
                !.chunk_size = cs] :
          m \in Modes,
          t \in { <<>>, <<"light">>, <<"mono">>, <<"solarized">> },
          tf \in { <<>>, <<"cli.json">> },
          l \in { <<>>, <<"tool">> },
          cs \in { <<>>, <<1>> } }

\* A configuration file that sets nothing.
EmptyFile ==
    [ theme_file |-> <<>>, llm_cmd |-> <<>>, speed |-> <<>>,
      chunk_size |-> <<>>, theme |-> <<>>, strip_boxes |-> <<>>,
      inject_md_instruction |-> <<>> ]

SingleCmd(cmd) == [kind |-> "Single", cmd |-> cmd, map |-> {}]

MultipleCmds(map) == [kind |-> "Multiple", cmd |-> "", map |-> map]

StartFiles ==
    { <<>>,
      <<[EmptyFile EXCEPT !.theme_file = <<"t.json">>]>>,
      <<[EmptyFile EXCEPT !.llm_cmd = <<SingleCmd("cfg")>>,
                          !.theme = <<"mono">>]>> }

StartInputs == { <<>>, <<"a", "b", "c", "d">> }

InitStart ==
    /\ cli \in StartClis
    /\ config_file \in StartFiles
    /\ from_file \in FromFile
    /\ input \in StartInputs
    /\ BeforeMain

SpecStart == InitStart /\ [][NextStart]_vars

(***************************************************************************)
(* The resolution of the settings on its own, over command lines and       *)
(* configuration files that set each setting or leave it out.              *)
(***************************************************************************)
ConfigClis ==
    { [NoOptions EXCEPT !.theme = t, !.theme_file = tf, !.speed = sp,
                        !.chunk_size = cs, !.strip_boxes = sb,
                        !.llm_cmd = l, !.no_inject = ni, !.query = <<"q">>] :
          t \in { <<>>, <<"light">> },
          tf \in { <<>>, <<"cli.json">> },
          sp \in { <<>>, <<"0.5">> },
          cs \in { <<>>, <<1>> },
          sb \in BOOLEAN,
          l \in { <<>>, <<"tool">>, <<"fast">> },
          ni \in BOOLEAN }

\* The values of llm_cmd in a configuration file: none, one command, a map
\* of named commands with or without the name "default".
FileLlmCmds ==
    { <<>>,
      <<SingleCmd("cfg")>>,
      <<MultipleCmds({})>>,
      <<MultipleCmds({<<"fast", "f">>})>>,
      <<MultipleCmds({<<"default", "d">>, <<"fast", "f">>})>>,
      <<MultipleCmds({<<"fast", "f">>, <<"slow", "s">>})>> }

\* The settings with a value each in a configuration file.
ValuedFile ==
    [ EmptyFile EXCEPT !.theme_file = <<"t.json">>, !.speed = <<"0.01">>,
                       !.chunk_size = <<3>>, !.theme = <<"mono">> ]

ConfigFiles ==
    {<<>>} \cup
    { <<[base EXCEPT !.llm_cmd = l, !.strip_boxes = sb,
                     !.inject_md_instruction = inj]>> :
          base \in {EmptyFile, ValuedFile},
          l \in FileLlmCmds,
          sb \in { <<>>, <<FALSE>>, <<TRUE>> },
          inj \in { <<>>, <<FALSE>>, <<TRUE>> } }

InitConfig ==
    /\ cli \in ConfigClis
    /\ config_file \in ConfigFiles
    /\ from_file = NoThemeFile
    /\ input = <<>>
    /\ BeforeMain

NextConfig == Resolve

SpecConfig == InitConfig /\ [][NextConfig]_vars

(***************************************************************************)
(* Properties                                                              *)
(***************************************************************************)
\* The sanitized form of the whole input.
SanitizedInput ==
    IF strip_boxes THEN sanitize_boxes(strip_ansi(input)) ELSE strip_ansi(input)

FenceCount(text) == Len(FenceMatches(text, 1))

\* Number of characters in the first j segments.
CutAfter(j) == Len(Concat(SubSeq(segments, 1, j)))

\* The positions k, 0 < k < Len(input), with a cut between characters k and
\* k + 1 of the text (SpecBoundary: the text is the buffer the cuts are
\* taken from).
Cuts ==
    { k \in 1..(Len(input) - 1) : \E j \in 1..Len(segments) : CutAfter(j) = k }

\* The line of text t that holds position k, without its newline.
LineAround(t, k) ==
    LET before == { i \in 1..(k - 1) : t[i] = NL }
        after == { i \in k..Len(t) : t[i] = NL }
        first == IF before = {} THEN 1 ELSE MaxOf(before) + 1
        last == IF after = {} THEN Len(t) ELSE MinOf(after) - 1
    IN  SubSeq(t, first, last)

HasPipe(line) == Has(line, {"|"})

\* C1: when the session ends, the concatenation of the segments handed to
\* the renderer is the sanitized form of the whole input.
C1_Lossless == pc = "done" => Concat(segments) = SanitizedInput

\* C2: no segment holds an opening fence whose closing fence is handed to
\* the renderer in a later segment: after any segment, either every fence
\* so far is closed or no fence marker follows in the later segments.
C2_FenceClosedInOneSegment ==
    \A j \in 1..(Len(segments) - 1) :
        ~ /\ FenceCount(Concat(SubSeq(segments, 1, j))) % 2 = 1
          /\ FenceCount(Concat(SubSeq(segments, j + 1, Len(segments)))) > 0

\* C3: no cut falls strictly inside a line that holds a pipe: a cut inside
\* the text follows a newline or lies in a line without a pipe.
C3_RowNeverSplit ==
    \A k \in Cuts : input[k] = NL \/ ~HasPipe(LineAround(input, k))

\* C4: two consecutive newline-ended pipe rows that are followed by a
\* non-pipe line are never separated by a cut.
C4_TableInOneSegment ==
    \A k \in Cuts :
        ~ /\ input[k] = NL
          /\ HasPipe(LineAround(input, k))
          /\ HasPipe(LineAround(input, k + 1))
          /\ \E e \in (k + 1)..(Len(input) - 1) :
                /\ input[e] = NL
                /\ \A i \in (k + 1)..(e - 1) : input[i] # NL
                /\ ~HasPipe(LineAround(input, e + 1))

\* C5: no operation fails on an index inside a character, and no character
\* of the input is split (the input holds no U+FFFD, so one in the buffer
\* or in a segment is a piece of a split character).
C5_ValidText ==
    /\ pc # "panic"
    /\ ~Has(buffer, {Repl})
    /\ \A j \in 1..Len(segments) : ~Has(segments[j], {Repl})

\* C7: no segment handed to the renderer holds a complete escape sequence.
C7_NoEscapeSequenceRendered ==
    \A j \in 1..Len(segments) : strip_ansi(segments[j]) = segments[j]

\* C8: at end of input a buffer with a character that is not whitespace is
\* rendered whole as one more segment, and any other buffer adds no segment.
C8_FinalSegment ==
    [][(pc = "read" /\ pc' = "done") =>
        segments' =
            IF \E i \in 1..Len(buffer) : ~IsWhitespace(buffer[i])
            THEN segments \o <<buffer>>
            ELSE segments]_vars

\* C8 witness: the session ended after earlier cuts, and the remainder,
\* which boundary selection would not cut, was rendered as the last segment.
C8_Witness ==
    /\ pc = "done"
    /\ Len(segments) >= 2
    /\ segments[Len(segments)] = buffer
    /\ find_flush_boundary(buffer, chunk_size) = 0

\* A text that starts with a complete fenced block and goes on with other
\* text: t = fence, body, fence, newline, rest; body and rest hold no fence
\* marker and rest is not empty.  BlockEnd is the position of that newline.
BlockEnd(t) ==
    IF /\ Len(t) >= 8
       /\ SubSeq(t, 1, 3) = Fence
       /\ Len(FenceMatches(t, 1)) = 2
    THEN LET close == FenceMatches(t, 1)[2]
         IN  IF close + 3 < Len(t) /\ t[close + 3] = NL THEN close + 3 ELSE 0
    ELSE 0

\* C9: the first segment cut from a buffer that starts with a complete
\* fenced block followed by other text is the block through the newline
\* after its closing fence.
C9_BlockIsFirstSegment ==
    (BlockEnd(input) # 0 /\ segments # <<>>) =>
        segments[1] = SubSeq(input, 1, BlockEnd(input))

\* The text w holds no fence pair, no pipe, no double newline, no terminal
\* punctuation, comma, dash or whitespace.
HasNoBoundary(w) ==
    /\ FenceCount(w) < 2
    /\ Occurs(w, <<NL, NL>>) = {}
    /\ ~Has(w, {"|", ".", "!", "?", ":", ",", "-", " ", NL, "\t", NBSP})

\* C10 as claimed: a buffer of at least chunk-size whose first chunk-size
\* characters hold no boundary is cut at chunk-size.  (Stated for the
\* buffers in which chunk-size is a character boundary; in the others
\* selection fails, which is C5.)
C10_HardCutByWindow ==
    (/\ pc = "flush"
     /\ chunk_size >= 1
     /\ ByteLen(buffer) >= chunk_size
     /\ IsCharBoundary(buffer, chunk_size)
     /\ HasNoBoundary(TakeBytes(buffer, chunk_size)))
        => find_flush_boundary(buffer, chunk_size) = chunk_size

\* The whole buffer holds no second fence marker, no pipe with a newline
\* after it and no double newline.
NoStructuralCut(buf) ==
    /\ FenceCount(buf) < 2
    /\ \A p \in Occurs(buf, <<"|">>) : \A q \in Occurs(buf, <<NL>>) : q < p
    /\ Occurs(buf, <<NL, NL>>) = {}

\* C10 amended: a buffer of at least chunk-size bytes that holds no second
\* fence marker, no newline-ended pipe row and no double newline anywhere,
\* and no terminal punctuation and no whitespace in its first chunk-size
\* bytes, is cut at exactly chunk-size bytes; when byte chunk-size lies
\* inside a character, selection fails instead.
C10_HardCut ==
    (/\ pc = "flush"
     /\ chunk_size >= 1
     /\ ByteLen(buffer) >= chunk_size
     /\ NoStructuralCut(buffer))
        => IF ~IsCharBoundary(buffer, chunk_size)
           THEN find_flush_boundary(buffer, chunk_size) = Panic
           ELSE ~Has(TakeBytes(buffer, chunk_size),
                     {".", "!", "?", ":", " ", NL, "\t", NBSP})
                    => find_flush_boundary(buffer, chunk_size) = chunk_size

\* C10 witness: a buffer longer than chunk-size with no boundary has been
\* cut at chunk-size, in the middle of a word.
C10_Witness ==
    /\ chunk_size = MaxChunk
    /\ NoStructuralCut(input)
    /\ Len(segments) = 1
    /\ ByteLen(segments[1]) = chunk_size
    /\ \A i \in 1..Len(segments[1]) : segments[1][i] \in Letters
    /\ buffer # <<>>
    /\ buffer[1] \in Letters

\* C6: render state persists across the segments of a session: when
\* print_styled_markdown is entered for the next segment, its list, table,
\* heading and code-block state is the state the previous segment left.
C6_RenderStatePersists ==
    [][(pc = "idle" /\ pc' = "render") => Locals(render') = Locals(render)]_vars

\* C11: for every buffer and chunk size, boundary selection returns an
\* index from 0 to the length of the buffer, and 0 on the empty buffer.
C11_CutInRange ==
    pc = "flush" =>
        /\ find_flush_boundary(buffer, chunk_size) \in 0..ByteLen(buffer)
        /\ buffer = <<>> => find_flush_boundary(buffer, chunk_size) = 0

\* Whenever boundary selection returns, its index is from 0 to the length
\* of the buffer, and 0 on the empty buffer.
ReturnedCutInRange ==
    (pc = "flush" /\ find_flush_boundary(buffer, chunk_size) # Panic) =>
        /\ find_flush_boundary(buffer, chunk_size) \in 0..ByteLen(buffer)
        /\ buffer = <<>> => find_flush_boundary(buffer, chunk_size) = 0

\* C12: while the buffer is drained after one append, the session
\* suspends after a cut exactly when the count of cuts since the append is
\* a multiple of 3 (command, query, standard input) or of 5 (text); it
\* suspends at no other moment, every cut adds one to the count, and each
\* append restarts the count at zero.
C12_Pacing ==
    [][LET cut == Len(segments') = Len(segments) + 1 /\ pc = "flush"
           every == IF source = "text" THEN 5 ELSE 3
       IN  /\ cut => /\ chunks_processed' = chunks_processed + 1
                     /\ (pc' = "sleep") <=> (chunks_processed' % every = 0)
           /\ (pc' = "sleep" /\ pc # "sleep") => cut
           /\ pos' # pos => chunks_processed' = 0]_vars

\* C12 witness: a text source suspended after its fifth cut since the
\* append.
C12_Witness ==
    /\ source = "text"
    /\ pc = "sleep"
    /\ chunks_processed = 5
    /\ Len(segments) = 5

\* A border line: not empty and made of border characters only.
BorderLine(l) ==
    /\ l # <<>>
    /\ \A i \in 1..Len(l) : l[i] \in {"+", "-", "U+2500", "U+2501", "U+2550"}

Bars == {"|", "U+2502", "U+2503"}

\* The text between the bars of a middle line.
InnerText(l) == Trim(SelectSeq(l, LAMBDA ch : ch \notin Bars))

\* A line with no border character, bar or box-drawing glyph.
PlainLine(l) ==
    \A i \in 1..Len(l) : l[i] \notin {"+", "-", "|"} \cup BoxGlyphs

\* Lines k, k + 1, k + 2 of ls form a box, after plain lines only.
BoxAt(ls, k) ==
    /\ k + 2 <= Len(ls)
    /\ \A j \in 1..(k - 1) : PlainLine(ls[j])
    /\ BorderLine(ls[k])
    /\ Has(ls[k + 1], Bars) /\ InnerText(ls[k + 1]) # <<>>
    /\ BorderLine(ls[k + 2])

\* The whole input has just been appended to the empty buffer.
Appended ==
    /\ pc = "flush"
    /\ pos = ByteLen(input)
    /\ segments = <<>>
    /\ chunks_processed = 0

C14_NoGlyphRendered ==
    ~strip_boxes =>
        \A j \in 1..Len(segments) : ~Has(segments[j], BoxGlyphs)

\* C15: input is appended only while the session waits for input, and an
\* append renders nothing; a rendered segment is the front of the buffer
\* (or, at end of input, the whole buffer) and is rendered in the step that
\* selects it, with no input taken; a suspension starts only with a
\* completed cut, and nothing changes while the session is suspended.
C15_StrictAlternation ==
    [][/\ pos' # pos => (pc = "read" /\ segments' = segments)
       /\ segments' # segments =>
             /\ pos' = pos
             /\ Len(segments') = Len(segments) + 1
             /\ SubSeq(segments', 1, Len(segments)) = segments
             /\ \/ buffer = segments'[Len(segments')] \o buffer'
                \/ pc' = "done" /\ segments'[Len(segments')] = buffer
       /\ (pc' = "sleep" /\ pc # "sleep") => segments' # segments
       /\ pc = "sleep" => UNCHANGED <<pos, buffer, segments>>]_vars

\* C15 witness: the session is suspended in the middle of draining, after
\* three segments, with text left in the buffer and input still to come.
C15_Witness ==
    /\ pc = "sleep"
    /\ Len(segments) >= 3
    /\ buffer # <<>>
    /\ pos < ByteLen(input)

\* The text printed so far.
RECURSIVE PrintedText(_)
PrintedText(out) ==
    IF out = <<>> THEN <<>> ELSE Head(out).text \o PrintedText(Tail(out))

\* The rows are n >= 1 rows with the same number of cells.
UniformRows(rows) ==
    /\ Len(rows) >= 1
    /\ \A r \in 1..Len(rows) : Len(rows[r]) = Len(rows[1])

\* The length in characters of the longest cell of column j.
LongestCell(rows, j) == MaxOf({ Len(rows[r][j]) : r \in 1..Len(rows) })

\* A border line of the grid from column j on.
RECURSIVE GridBorderFrom(_, _, _)
GridBorderFrom(rows, mid, j) ==
    IF j > Len(rows[1]) THEN <<>>
    ELSE (IF j > 1 THEN <<mid>> ELSE <<>>)
            \o Repeat("U+2500", LongestCell(rows, j) + 2)
            \o GridBorderFrom(rows, mid, j + 1)

GridBorder(rows, left, mid, right) ==
    <<left>> \o GridBorderFrom(rows, mid, 1) \o <<right, NL>>

\* Row r of the grid from column j on: every cell between two spaces,
\* padded on the right to the length of the longest cell of its column.
RECURSIVE GridCellsFrom(_, _, _)
GridCellsFrom(rows, r, j) ==
    IF j > Len(rows[r]) THEN <<>>
    ELSE (IF j > 1 THEN <<"U+2502">> ELSE <<>>)
            \o <<" ">> \o rows[r][j]
            \o Repeat(" ", LongestCell(rows, j) - Len(rows[r][j])) \o <<" ">>
            \o GridCellsFrom(rows, r, j + 1)

\* The rows from row r on, a separator after the first row and between
\* two rows.
RECURSIVE GridRowsFrom(_, _)
GridRowsFrom(rows, r) ==
    IF r > Len(rows) THEN <<>>
    ELSE <<"U+2502">> \o GridCellsFrom(rows, r, 1) \o <<"U+2502", NL>>
            \o (IF r = 1 \/ r < Len(rows)
                THEN GridBorder(rows, "U+251C", "U+253C", "U+2524")
                ELSE <<>>)
            \o GridRowsFrom(rows, r + 1)

Grid(rows) ==
    GridBorder(rows, "U+250C", "U+252C", "U+2510")
        \o GridRowsFrom(rows, 1)
        \o GridBorder(rows, "U+2514", "U+2534", "U+2518")

\* C16: for n >= 1 rows with the same number of cells the printed text is
\* the grid: top border, the rows in order with a separator line after the
\* first row and between two consecutive rows, bottom border, every column
\* as wide as the longest cell of the column, shorter cells padded on the
\* right with spaces.
C16_GridShape ==
    (pc = "done" /\ UniformRows(ParseRows(input))) =>
        PrintedText(render.out) = Grid(ParseRows(input))

\* The same for tables whose cells hold one-byte characters only.
GridShapeOfOneByteCells ==
    (/\ pc = "done"
     /\ UniformRows(ParseRows(input))
     /\ ByteLen(input) = Len(input)) =>
        PrintedText(render.out) = Grid(ParseRows(input))

\* The colour the claim gives heading level L of a theme: the single
\* colour; of a list of k >= 1 colours the L-th or, beyond k, the last;
\* white for an empty list.
ClaimedHeadingColor(t, L) ==
    LET colors == t.heading.colors
        k == Len(colors)
    IN  IF t.heading.kind = "Single" THEN parse_color(colors[1])
        ELSE IF k = 0 THEN <<"Rgb", 255, 255, 255>>
        ELSE parse_color(colors[Min(L, k)])

\* C17: heading colour lookup never fails and clamps.  Once new has looked
\* up the heading colours of its theme, the skin is built and every level
\* has the single colour, or the level's colour of the list with the last
\* colour beyond the list, or white for an empty list.
C17_HeadingColorClamps ==
    pc \notin {"main", "new"} =>
        /\ mad_skin # Unset
        /\ \A L \in HeaderLevels : mad_skin[L] = ClaimedHeadingColor(theme, L)

\* Whenever the lookups return, the colours are the clamped ones.
HeadingColorClampsWhenReturned ==
    (pc \notin {"main", "new"} /\ mad_skin # Unset) =>
        \A L \in HeaderLevels : mad_skin[L] = ClaimedHeadingColor(theme, L)

\* Level 7 of a list of three colours got the third.
ClampedLevelSeven ==
    /\ pc = "dispatch"
    /\ theme.heading = [kind |-> "Multiple", colors |-> <<Hex1, Red, Hex2>>]
    /\ mad_skin[7] = <<"Rgb", 160, 176, 192>>
    /\ mad_skin[2] = <<"Red">>

\* The built-in theme the claim names for a theme name.
ClaimedPreset(theme_name) ==
    IF theme_name = "light" THEN LightTheme
    ELSE IF theme_name = "mono" THEN MonoTheme
    ELSE DarkTheme

\* C18: an invalid or unreadable theme file is recoverable.  After new,
\* with a theme file that did not load the streamer is constructed and its
\* theme is the built-in theme of the theme name, dark for any other name;
\* with a theme file that loaded the theme is the file's, whatever the
\* theme name.
C18_ThemeFallback ==
    (pc \notin {"main", "new"} /\ settings.theme_file # <<>>) =>
        IF from_file.result = "Ok"
        THEN theme = from_file.theme
        ELSE /\ mad_skin # Unset
             /\ theme = ClaimedPreset(settings.theme_name)

\* A theme file that does not parse, with the theme name light.
C18_Witness ==
    /\ pc = "dispatch"
    /\ settings.theme_file # <<>>
    /\ from_file.result = "ParseError"
    /\ settings.theme_name = "light"
    /\ theme = LightTheme
    /\ mad_skin # Unset

\* value is the command line's when given, else the configuration file's
\* when given, else the default.
Precedence(given, filed, default, value) ==
    value = IF given # <<>> THEN given[1]
            ELSE IF filed # <<>> THEN filed[1]
            ELSE default

\* Precedence for chunk size, delay, theme name, theme file, box-stripping
\* and injection.  A flag is given when it is on the command line.
OtherSettingsPrecedence ==
    /\ Precedence(cli.chunk_size, FileField(config_file, "chunk_size"), 150,
                  settings.chunk_size)
    /\ Precedence(cli.speed, FileField(config_file, "speed"), "0.001",
                  settings.speed)
    /\ Precedence(cli.theme, FileField(config_file, "theme"), "dark",
                  settings.theme_name)
    /\ cli.theme_file # <<>> => settings.theme_file = cli.theme_file
    /\ (cli.theme_file = <<>> /\ FileField(config_file, "theme_file") # <<>>)
           => settings.theme_file =
                  <<HomeJoin(FileField(config_file, "theme_file")[1])>>
    /\ settings.strip_boxes =
           IF cli.strip_boxes THEN TRUE
           ELSE UnwrapOr(FileField(config_file, "strip_boxes"), FALSE)
    /\ settings.inject_md_instruction =
           IF cli.no_inject THEN FALSE
           ELSE UnwrapOr(FileField(config_file, "inject_md_instruction"), TRUE)

\* Precedence for the LLM command: the command line's when given, else a
\* command of the configuration file, else none.
LlmCmdPrecedence ==
    LET filed == FileField(config_file, "llm_cmd")
    IN  IF cli.llm_cmd # <<>> THEN settings.llm_cmd = cli.llm_cmd
        ELSE IF filed = <<>> THEN settings.llm_cmd = <<>>
        ELSE IF filed[1].kind = "Single"
        THEN settings.llm_cmd = <<filed[1].cmd>>
        ELSE IF filed[1].map = {} THEN settings.llm_cmd = <<>>
        ELSE \E p \in filed[1].map : settings.llm_cmd = <<p[2]>>

\* C19: configuration precedence.  For every setting the resolved value is
\* the command line's when given there, else the configuration file's,
\* else the built-in default.
C19_Precedence ==
    pc = "new" => (OtherSettingsPrecedence /\ LlmCmdPrecedence)

\* Every setting but the LLM command follows the precedence.
OtherSettingsFollowPrecedence ==
    pc = "new" => OtherSettingsPrecedence

\* C20: in query mode with no LLM command resolved, stream_query has
\* returned an error, no subprocess was spawned and nothing was rendered.
C20_NoCommandNoSpawn ==
    (source = "query" /\ settings.llm_cmd = <<>>) =>
        /\ pc = "error"
        /\ ~spawned
        /\ segments = <<>>
        /\ render.out = <<>>

\* A query with no LLM command on the command line or in the file.
C20_Witness ==
    /\ source = "query"
    /\ cli.query # <<>>
    /\ settings.llm_cmd = <<>>
    /\ pc = "error"

\* C21: a read error ends the session at once.  The step into the error
\* renders nothing, and after it no segment is rendered and the session
\* stays ended, so what the buffer held is never rendered.
C21_ReadErrorEndsSession ==
    [][ /\ (pc = "read" /\ pc' = "error") => segments' = segments
        /\ pc = "error" => (pc' = "error" /\ segments' = segments)
      ]_vars

\* A pipe failed after a segment was rendered, with text left in the buffer.
C21_Witness ==
    /\ pc = "error"
    /\ source \in {"command", "query", "stdin"}
    /\ segments # <<>>
    /\ Trim(buffer) # <<>>
    /\ pos < ByteLen(input)

\* The byte offset just after the second fence marker of a text with two.
SecondFenceEnd(text) == Off(text, FenceMatches(text, 1)[2]) + 3

\* C22: the rules are tried in the order fence, table row, paragraph break,
\* size, and the first that matches gives the cut.  With two fence markers
\* the cut is after the second marker (and its newline); else when the
\* table rule matches the cut is the table rule's; else when the buffer has
\* a double newline the cut is the paragraph rule's.
C22_RulePriority ==
    pc = "flush" =>
        LET cut == find_flush_boundary(buffer, chunk_size)
        IN  IF Len(FenceMatches(buffer, 1)) >= 2
            THEN cut \in {SecondFenceEnd(buffer), SecondFenceEnd(buffer) + 1}
            ELSE IF TableRule(buffer) # 0 THEN cut = TableRule(buffer)
            ELSE Occurs(buffer, <<NL, NL>>) # {} => cut = ParagraphRule(buffer)

\* A pipe row came before two fence markers and the segment ends after the
\* second marker.
C22_Witness ==
    /\ input = <<"|", NL>> \o Fence \o Fence
    /\ segments = <<input>>

\* A table cut was taken although a double newline starts before it.
TableCutBeforeParagraphCut ==
    /\ input = <<"|", NL, NL, "a">>
    /\ segments # <<>>
    /\ segments[1] = <<"|", NL>>

\* The rules below the table rule.
LowerRules(text, size) ==
    IF ParagraphRule(text) # 0 THEN ParagraphRule(text)
    ELSE IF ByteLen(text) >= size THEN SizeRule(text, size)
    ELSE 0

\* The byte offset just after the first newline that follows the first
\* pipe of a text, or 0 when there is no such newline.
AfterRowOfFirstPipe(text) ==
    LET pipes == Occurs(text, <<"|">>)
        nls == { q \in Occurs(text, <<NL>>) : q >= MinOf(pipes) }
    IN  IF pipes = {} \/ nls = {} THEN 0 ELSE Off(text, MinOf(nls)) + 1

\* The table-row rule of the claim for a text with a pipe and no fence
\* pair: with p just after the row of the first pipe, the cut is p when a
\* character exists at p and the line at p does not start with a pipe;
\* otherwise the cut is that of the lower rules.
ClaimedTableRow(text, size, cut) ==
    LET p == AfterRowOfFirstPipe(text)
    IN  IF p # 0 /\ p < ByteLen(text) /\ Head(DropBytes(text, p)) # "|"
        THEN cut = p
        ELSE cut = LowerRules(text, size)

\* C23: the table-row rule.  With no second fence marker and a pipe in the
\* buffer, the cut is just after the row of the first pipe exactly when a
\* line that does not start a row follows there; otherwise the lower rules
\* decide.
C23_TableRowRule ==
    (/\ pc = "flush"
     /\ Len(FenceMatches(buffer, 1)) < 2
     /\ Occurs(buffer, <<"|">>) # {}) =>
        ClaimedTableRow(buffer, chunk_size,
                        find_flush_boundary(buffer, chunk_size))

\* The table-row rule is the claimed one on buffers of one-byte characters.
TableRowRuleOfOneByteChars ==
    (/\ pc = "flush"
     /\ Len(FenceMatches(buffer, 1)) < 2
     /\ Occurs(buffer, <<"|">>) # {}
     /\ ByteLen(buffer) = Len(buffer)) =>
        ClaimedTableRow(buffer, chunk_size,
                        find_flush_boundary(buffer, chunk_size))

\* The byte offset after the run of newlines that begins at the first
\* double newline of a text.
RECURSIVE AfterRun(_, _)
AfterRun(text, i) ==
    IF i <= Len(text) /\ text[i] = NL THEN AfterRun(text, i + 1)
    ELSE Off(text, i)

\* C24: the paragraph-break rule.  With no fence pair, no table-row cut and
\* a double newline in the buffer, the cut is after the whole run of
\* newlines that begins at the first double newline.
C24_ParagraphRule ==
    (/\ pc = "flush"
     /\ FenceRule(buffer) = 0
     /\ TableRule(buffer) = 0
     /\ Occurs(buffer, <<NL, NL>>) # {}) =>
        find_flush_boundary(buffer, chunk_size) =
            AfterRun(buffer, MinOf(Occurs(buffer, <<NL, NL>>)))

\* The paragraph rule is the claimed one on buffers of one-byte characters.
ParagraphRuleOfOneByteChars ==
    (/\ pc = "flush"
     /\ FenceRule(buffer) = 0
     /\ TableRule(buffer) = 0
     /\ Occurs(buffer, <<NL, NL>>) # {}
     /\ ByteLen(buffer) = Len(buffer)) =>
        find_flush_boundary(buffer, chunk_size) =
            AfterRun(buffer, MinOf(Occurs(buffer, <<NL, NL>>)))

\* The size rule decides: no higher rule matches and the buffer is at or
\* above the chunk size.
SizeRuleDecides ==
    /\ pc = "flush"
    /\ FenceRule(buffer) = 0
    /\ TableRule(buffer) = 0
    /\ ParagraphRule(buffer) = 0
    /\ ByteLen(buffer) >= chunk_size
    /\ IsCharBoundary(buffer, chunk_size)

\* The window of the size rule: the first chunk_size bytes of the buffer.
Window == TakeBytes(buffer, chunk_size)

\* Cuts after an occurrence of a pattern in the window.
CutsAfter(pat) == { Off(Window, i) + Len(pat) : i \in Occurs(Window, pat) }

\* Cuts after a terminal punctuation character of the window and the
\* whitespace that follows it in the buffer.
CutsAfterPunctuation ==
    { Off(Window, i) + 2 :
        i \in { j \in 1..Len(Window) :
                  /\ Window[j] \in {".", "!", "?", ":"}
                  /\ j + 1 <= Len(buffer)
                  /\ IsWhitespace(buffer[j + 1]) } }

\* The same for the last terminal punctuation character of the window only.
CutsAfterLastPunctuation ==
    LET punct == { j \in 1..Len(Window) : Window[j] \in {".", "!", "?", ":"} }
    IN  IF punct = {} THEN {}
        ELSE IF MaxOf(punct) + 1 <= Len(buffer)
                /\ IsWhitespace(buffer[MaxOf(punct) + 1])
        THEN {Off(Window, MaxOf(punct)) + 2}
        ELSE {}

\* The search order of the size rule for a given set of punctuation cuts:
\* the first kind of candidate that exists gives the cut.
SearchOrder(punctuation, cut) ==
    IF CutsAfter(<<".", " ">>) # {} THEN cut \in CutsAfter(<<".", " ">>)
    ELSE IF punctuation # {} THEN cut \in punctuation
    ELSE IF CutsAfter(<<",", " ">>) # {} THEN cut \in CutsAfter(<<",", " ">>)
    ELSE IF CutsAfter(<<" ", "-", " ">>) # {}
    THEN cut \in CutsAfter(<<" ", "-", " ">>)
    ELSE TRUE

\* C25: the search order of the size rule.  The cut is after a sentence end
\* in the window; else after a terminal punctuation character of the window
\* that is followed by whitespace; else after a comma and space; else after
\* a dash boundary.
C25_SearchOrder ==
    SizeRuleDecides =>
        SearchOrder(CutsAfterPunctuation,
                    find_flush_boundary(buffer, chunk_size))

\* The search order holds when the punctuation candidate is the last
\* terminal punctuation character of the window only.
SearchOrderOfLastPunctuation ==
    SizeRuleDecides =>
        SearchOrder(CutsAfterLastPunctuation,
                    find_flush_boundary(buffer, chunk_size))

\* No sentence, punctuation, comma or dash boundary exists in the window.
NoBetterBoundary ==
    /\ CutsAfter(<<".", " ">>) = {}
    /\ CutsAfterPunctuation = {}
    /\ CutsAfter(<<",", " ">>) = {}
    /\ CutsAfter(<<" ", "-", " ">>) = {}

\* The whitespace fallback for a test of the last whitespace's offset
\* against the chunk size: the cut is after the last whitespace of the
\* window and the newlines that follow it when the test succeeds, and the
\* chunk size otherwise.
Fallback(far_enough(_), cut) ==
    LET spaces == { i \in 1..Len(Window) : IsWhitespace(Window[i]) }
        last_space == Off(Window, MaxOf(spaces))
    IN  IF spaces # {} /\ far_enough(last_space)
        THEN cut = AfterRun(buffer, MaxOf(spaces) + 1)
        ELSE cut = chunk_size

\* The last whitespace lies at or after 75% of the chunk size.
AtOrAfterThreeQuarters(offset) == 4 * offset >= 3 * chunk_size

\* The last whitespace lies after 75% of the chunk size.
AfterThreeQuarters(offset) == 4 * offset > 3 * chunk_size

\* C26: the whitespace fallback.  With no better boundary in the window the
\* cut is the whitespace boundary exactly when the last whitespace of the
\* window lies at or after 75% of the chunk size, and the chunk size
\* otherwise.
C26_WhitespaceFallback ==
    (SizeRuleDecides /\ NoBetterBoundary) =>
        Fallback(AtOrAfterThreeQuarters,
                 find_flush_boundary(buffer, chunk_size))

\* The fallback with the whitespace strictly after 75% of the chunk size.
WhitespaceFallbackAfterThreeQuarters ==
    (SizeRuleDecides /\ NoBetterBoundary) =>
        Fallback(AfterThreeQuarters,
                 find_flush_boundary(buffer, chunk_size))

\* The buffer is below the chunk size and has no second fence marker, no
\* table-row cut and no double newline.
BelowThreshold ==
    /\ pc = "flush"
    /\ ByteLen(buffer) < chunk_size
    /\ Len(FenceMatches(buffer, 1)) < 2
    /\ TableRule(buffer) = 0
    /\ Occurs(buffer, <<NL, NL>>) = {}

\* C27: below the chunk size with no structural boundary no cut is made.
\* Boundary selection returns 0, the step renders nothing, leaves the buffer
\* as it is and goes back to reading.
C27_NoCutBelowThreshold ==
    [][ BelowThreshold =>
            /\ find_flush_boundary(buffer, chunk_size) = 0
            /\ segments' = segments
            /\ buffer' = buffer
            /\ pc' = "read"
      ]_vars

\* Mid-stream, a short buffer waits for input with nothing rendered.
C27_Witness ==
    /\ pc = "read"
    /\ 0 < pos
    /\ pos < ByteLen(input)
    /\ buffer # <<>>
    /\ ByteLen(buffer) < chunk_size
    /\ Len(FenceMatches(buffer, 1)) < 2
    /\ TableRule(buffer) = 0
    /\ Occurs(buffer, <<NL, NL>>) = {}
    /\ segments = <<>>

\* C28: after every event at most one of the table, heading and code-block
\* accumulators is open, and one that is not open holds no text.
C28_OneAccumulatorOpen ==
    /\ Cardinality({ f \in {"in_table", "in_header", "in_code_block"} :
                       render[f] }) <= 1
    /\ ~render.in_table => render.table_buffer = <<>>
    /\ ~render.in_header => render.header_buffer = <<>>
    /\ ~render.in_code_block => render.code_block_buffer = <<>>

\* A code block is accumulating its text after a heading was rendered in
\* the same call.
C28_Witness ==
    /\ pc = "render"
    /\ n_calls = 1
    /\ render.in_code_block
    /\ render.code_block_buffer = Fence \o <<NL>> \o Word
    /\ \E i \in 1..Len(render.out) :
          /\ render.out[i].op = "print_text"
          /\ render.out[i].text = <<"#", " ">> \o Word

\* The nesting of lists at the parser: the number of open lists.
Nesting(tags) == Cardinality({ i \in 1..Len(tags) : tags[i].tag = "List" })

\* The step delivers the start of an item.
ItemStarts ==
    /\ pc = "render"
    /\ n_events' = n_events + 1
    /\ Len(open') = Len(open) + 1
    /\ open'[Len(open')].tag = "Item"

\* The step prints the list buffer and clears it.
ListRendered ==
    /\ render.list_buffer # <<>>
    /\ render'.list_buffer = <<>>
    /\ render'.out =
           Append(render.out, [op |-> "print_text", text |-> render.list_buffer])

\* C29: a list is rendered as one unit.  While lists are open at the
\* parser every item start adds to the list buffer, the buffer is never
\* emptied before the nesting returns to zero, and the step in which it
\* returns to zero prints the buffer and clears it.
C29_ListAsOneUnit ==
    [][ /\ ItemStarts =>
              /\ Len(render'.list_buffer) > Len(render.list_buffer)
              /\ SubSeq(render'.list_buffer, 1, Len(render.list_buffer))
                     = render.list_buffer
        /\ (/\ pc = "render" /\ n_events' = n_events + 1
            /\ Nesting(open) > 0 /\ Nesting(open') > 0) =>
              (render.list_buffer # <<>> => render'.list_buffer # <<>>)
        /\ (/\ pc = "render" /\ n_events' = n_events + 1
            /\ Nesting(open) > 0 /\ Nesting(open') = 0) =>
              ListRendered
      ]_vars

\* While the list accumulator is open, item starts add to the buffer and
\* the return of the renderer's depth to zero prints and clears it.
ListAsOneUnitWhileOpen ==
    [][ /\ (ItemStarts /\ render.in_list /\ pc' = "render") =>
              /\ Len(render'.list_buffer) > Len(render.list_buffer)
              /\ SubSeq(render'.list_buffer, 1, Len(render.list_buffer))
                     = render.list_buffer
        /\ (/\ pc = "render" /\ pc' = "render" /\ n_events' = n_events + 1
            /\ render.in_list /\ render.list_buffer # <<>>
            /\ render.list_depth = Nesting(open)
            /\ Nesting(open) > 0 /\ Nesting(open') = 0) =>
              ListRendered
      ]_vars

\* The marker of the claim for an item that starts in the innermost open
\* list: the indent of the list's depth, then the bullet or the number.
ClaimedMarker(tags) ==
    LET list == tags[Len(tags)]
        d == Nesting(tags)
    IN  Repeat(" ", Min(2 * (d - 1), 3))
            \o (IF list.type = <<>> THEN <<"-", " ">>
                ELSE <<ToString(list.type[1] + list.n), ".", " ">>)

\* C30: list item markers.  The start of an item at depth d appends to the
\* list buffer min(2*(d-1), 3) spaces and then "- " for an unordered list
\* or "n. " for an ordered one, n being the start value of the item's list
\* plus the number of items that list has had before.
C30_ItemMarker ==
    [][ ItemStarts =>
            /\ pc' = "render"
            /\ render'.list_buffer = render.list_buffer \o ClaimedMarker(open)
      ]_vars

\* The markers are the claimed ones while the list accumulator is open and
\* the renderer's depth is the nesting of the parser.
ItemMarkerWhileOpen ==
    [][ (/\ ItemStarts
         /\ render.in_list
         /\ render.list_depth = Nesting(open)) =>
            /\ pc' = "render"
            /\ render'.list_buffer = render.list_buffer \o ClaimedMarker(open)
      ]_vars

\* The second item of an outer ordered list got the number 2 after a nested
\* list was opened and closed inside the first item.
OuterNumberingKept ==
    /\ pc = "render"
    /\ Len(open) = 2
    /\ open[1].tag = "List"
    /\ open[1].type = <<1>>
    /\ open[2].tag = "Item"
    /\ render.in_list
    /\ \E k \in 1..Len(render.list_buffer) :
          /\ SubSeq(render.list_buffer, k, Len(render.list_buffer))
                 = <<"2", ".", " ">>
          /\ \E j \in 1..(k - 4) : SubSeq(render.list_buffer, j, j + 3)
                                       = <<" ", " ", "-", " ">>

\* The step delivers the start of a t.
Entering(t) ==
    /\ pc = "render"
    /\ pc' = "render"
    /\ n_events' = n_events + 1
    /\ Len(open') = Len(open) + 1
    /\ open'[Len(open')].tag = t

\* The output calls the step has added.
NewOutput == SubSeq(render'.out, Len(render.out) + 1, Len(render'.out))

RuleLine == [op |-> "Print", text |-> <<NL, "U+2500", NL>>]

\* The step delivers a horizontal rule.
EnteringRule ==
    /\ pc = "render"
    /\ pc' = "render"
    /\ n_events' = n_events + 1
    /\ Len(open') = Len(open)
    /\ NewOutput # <<>>
    /\ NewOutput[Len(NewOutput)] = RuleLine

\* The open heading buffer and the open list buffer, as output calls.
PendingHeader ==
    IF render.in_header
    THEN <<[op |-> "print_text", text |-> render.header_buffer]>> ELSE <<>>

PendingList ==
    IF render.in_list
    THEN <<[op |-> "print_text", text |-> render.list_buffer]>> ELSE <<>>

HeaderClosed == ~render'.in_header /\ render'.header_buffer = <<>>

ListClosed == ~render'.in_list /\ render'.list_buffer = <<>>

\* The accumulators that are open.
OpenAccumulators(r) ==
    { f \in {"in_table", "in_header", "in_code_block", "in_list"} : r[f] }

\* The text an open accumulator holds.
Held(r) ==
    (IF r.in_table THEN r.table_buffer ELSE <<>>)
        \o (IF r.in_header THEN r.header_buffer ELSE <<>>)
        \o (IF r.in_code_block THEN r.code_block_buffer ELSE <<>>)
        \o (IF r.in_list THEN r.list_buffer ELSE <<>>)

\* The constructs of the claim flush what is open when they start.
FlushesOnEntering ==
    /\ (Entering("Table") \/ Entering("CodeBlock")) =>
          /\ NewOutput = PendingHeader \o PendingList
          /\ HeaderClosed
          /\ ListClosed
    /\ EnteringRule =>
          /\ NewOutput = PendingHeader \o PendingList \o <<RuleLine>>
          /\ HeaderClosed
          /\ ListClosed
    /\ Entering("Heading") =>
          /\ NewOutput = PendingList
          /\ ListClosed
    /\ (Entering("List") /\ Nesting(open) = 0) =>
          /\ NewOutput = PendingHeader
          /\ HeaderClosed

\* Text is accumulated in one place at a time, and a step that writes to
\* the terminal leaves nothing behind that was accumulated before it.
OrderKept ==
    (pc = "render" /\ pc' = "render") =>
        /\ Cardinality(OpenAccumulators(render')) <= 1
        /\ (NewOutput # <<>> /\ Held(render) # <<>>) =>
              \A f \in OpenAccumulators(render) : ~render'[f]

\* C31: structural precedence preserves the output order.  The start of a
\* table or of a code block and a rule print the open heading buffer and
\* then the open list buffer and close both before anything else; the start
\* of a heading prints and closes the open list buffer; the start of an
\* outermost list prints and closes the open heading buffer; hence what is
\* accumulated is printed before what follows it in the source.
C31_StructuralPrecedence == [][FlushesOnEntering /\ OrderKept]_vars

\* The flushes of the claim happen at the start of each construct.
PrecedenceOnEntering == [][FlushesOnEntering]_vars

\* Outside an open heading the output order is kept.
OrderKeptOutsideHeadings == [][~render.in_header => OrderKept]_vars

\* A code block starts inside an item of an open list: the list buffer
\* with the item's marker was printed and closed, and the code block is the
\* one accumulator open.
ListFlushedByCodeBlock ==
    /\ pc = "render"
    /\ Len(open) = 3
    /\ open[1].tag = "List"
    /\ open[2].tag = "Item"
    /\ open[3].tag = "CodeBlock"
    /\ render.in_code_block
    /\ ~render.in_list
    /\ render.out # <<>>
    /\ render.out[Len(render.out)]
           = [op |-> "print_text", text |-> <<"-", " ">> \o Word]

\* The lines render_table has printed.
PrintedLines == Lines(PrintedText(render.out))

\* The number of columns the top border shows.
BorderColumns(line) ==
    Cardinality({ k \in 1..Len(line) : line[k] = "U+252C" }) + 1

\* The lines that show a row: those that begin with the vertical bar.
RowLines(ls) == { k \in 1..Len(ls) : ls[k] # <<>> /\ ls[k][1] = "U+2502" }

\* The grid has as many columns as the longest row has cells, and a row
\* line for every row.
ColumnsAndRows(rows, ls) ==
    /\ BorderColumns(ls[1]) = MaxOf({ Len(rows[r]) : r \in 1..Len(rows) })
    /\ Cardinality(RowLines(ls)) = Len(rows)

\* Every line is as wide as the top border.
SameWidth(ls) == \A k \in 1..Len(ls) : Len(ls[k]) = Len(ls[1])

\* C32: ragged rows.  The grid has as many columns as the longest row has
\* cells, every row is shown, and every printed line, also that of a row
\* with fewer cells, is as wide as the top and bottom borders.
C32_RaggedRows ==
    (pc = "done" /\ ParseRows(input) # <<>>) =>
        /\ ColumnsAndRows(ParseRows(input), PrintedLines)
        /\ SameWidth(PrintedLines)

\* The number of columns and of row lines is the claimed one.
RaggedRowsAllShown ==
    (pc = "done" /\ ParseRows(input) # <<>>) =>
        ColumnsAndRows(ParseRows(input), PrintedLines)

\* The lines of a table whose rows have the same number of cells have one
\* width.
UniformRowsSameWidth ==
    (pc = "done" /\ ParseRows(input) # <<>> /\ UniformRows(ParseRows(input))) =>
        SameWidth(PrintedLines)

\* The step takes a cut: a segment is drained from the buffer and rendered.
CutTaken == pc = "flush" /\ segments' # segments

\* A cut that is taken is from 1 to the length of the buffer and removes
\* that many bytes from its front.
CutShortens ==
    CutTaken =>
        LET flush_pos == find_flush_boundary(buffer, chunk_size)
        IN  /\ flush_pos \in 1..ByteLen(buffer)
            /\ ByteLen(buffer') = ByteLen(buffer) - flush_pos
            /\ ByteLen(buffer') < ByteLen(buffer)

\* C33: draining terminates.  Every cut taken is at least 1 and at most
\* the length of the buffer and shortens the buffer, and the operation,
\* unless a read fails, reaches its flush at end of input.
C33_DrainingTerminates ==
    /\ [][CutShortens]_vars
    /\ <>(pc \in {"done", "error"})

\* Every cut taken shortens the buffer.
CutsShorten == [][CutShortens]_vars

\* The operation ends: at its flush at end of input, at a failed read or in
\* a panic.
OperationEnds == <>(pc \in {"done", "error", "panic"})

\* After an append the loop is left: the next read, the end of input or a
\* panic follows.
DrainEnds == (pc = "flush") ~> (pc \in {"read", "panic"})

\* The buffer between two appends.
Buffered == pc \in {"read", "flush", "sleep"}

\* C34: sanitization is idempotent on the buffer.  The buffer the session
\* holds has been sanitized, and sanitizing it again, as the next append
\* will do, leaves it as it is.
C34_SanitizationIdempotent ==
    Buffered => Sanitize(source, strip_boxes, buffer) = buffer

\* Stripping escape sequences again leaves the buffer as it is.
StripIdempotent ==
    (Buffered /\ source # "stdin") => strip_ansi(buffer) = buffer

\* Sanitizing boxes again leaves the buffer as it is.
BoxesIdempotent ==
    (Buffered /\ strip_boxes) => sanitize_boxes(buffer) = buffer

\* C35: list nesting bookkeeping.  The depth counter equals the length of
\* the stack of list types and of the stack of item numbers after every
\* event, and no handler panics: the end of a list never finds the depth
\* at zero and the start of an item never indexes outside the stacks.
C35_ListBookkeeping ==
    /\ pc # "panic"
    /\ render.list_depth = Len(render.list_types)
    /\ render.list_depth = Len(render.item_numbers)

\* The two stacks have one length.
StacksAligned == Len(render.list_types) = Len(render.item_numbers)

\* While the list accumulator is open the depth is the length of the
\* stacks.
BookkeepingWhileOpen ==
    (pc # "panic" /\ render.in_list) =>
        /\ render.list_depth = Len(render.list_types)
        /\ render.list_depth = Len(render.item_numbers)

\* The outer list has ended after a code block in one of its items was
\* followed by a nested list, in a build without overflow checks: the depth
\* has wrapped below zero.
DepthWrapped ==
    /\ pc = "render"
    /\ ~overflow_checks
    /\ open = <<>>
    /\ render.list_depth = -1
    /\ render.list_types = <<>>
====
